---- MODULE Spec2Model ----
(***************************************************************************)
(* A model of migrate_repo.py: the Poetry -> uv migration driver           *)
(* (migrate_repo and the functions it calls), its analysis pass and the    *)
(* manifest transformation.                                                *)
(*                                                                         *)
(* Python strings that the program takes apart (version constraints,       *)
(* dependency declarations, file paths) are sequences of one-character     *)
(* strings, so that replace / split / startswith / "in" are computed as    *)
(* Python computes them.  Texts the program only passes around (command    *)
(* words, captured stderr) are plain strings.                              *)
(*                                                                         *)
(* A Python function that may raise returns Returned(v) or Raised(exc).    *)
(* Then(r, F) continues with F on the value of r and passes an error on,   *)
(* so that every call of the code appears once in the model.               *)
(***************************************************************************)
EXTENDS Integers, Sequences, FiniteSets, TLC

(***************************************************************************)
(* Bounds of the model.                                                    *)
(***************************************************************************)
\* the largest number of Python files in the repository tree
MaxFiles == 2
\* the number of dependency strings of a manifest table
MaxDeps == 2

\* the number of consecutive invocations of migrate_repo on one repository
MaxRuns == 2

(***************************************************************************)
(* Results, optional values.                                               *)
(***************************************************************************)
\* Python's None and a present value
None == [some |-> FALSE]
Some(v) == [some |-> TRUE, val |-> v]

Raised(exc) == [ok |-> FALSE, exc |-> exc]
Returned(v) == [ok |-> TRUE, val |-> v]

\* F applied to the value of r; the error of r when it raised
Then(r, F(_)) == IF r.ok THEN F(r.val) ELSE r

\* try: return r / except: return None
OrNone(r) == IF r.ok THEN Some(r.val) ELSE None

(***************************************************************************)
(* Python str operations on character sequences.                           *)
(***************************************************************************)
\* s.startswith(p)
StartsWith(s, p) == Len(p) <= Len(s) /\ SubSeq(s, 1, Len(p)) = p

\* s.endswith(p)
EndsWith(s, p) == Len(p) <= Len(s) /\ SubSeq(s, Len(s) - Len(p) + 1, Len(s)) = p

\* t in s  (substring test)
Contains(s, t) == \E i \in 1..(Len(s) - Len(t) + 1) : SubSeq(s, i, i + Len(t) - 1) = t

\* s[n:]
DropFirst(s, n) == SubSeq(s, n + 1, Len(s))

\* s.replace(old, new): left to right, non-overlapping; old is not empty
RECURSIVE Replace(_, _, _)
Replace(s, old, new) ==
    IF s = <<>> THEN <<>>
    ELSE IF StartsWith(s, old) THEN new \o Replace(DropFirst(s, Len(old)), old, new)
    ELSE <<Head(s)>> \o Replace(Tail(s), old, new)

\* the first index at which sep occurs in s, 0 if there is none
FirstIndex(s, sep) ==
    IF Contains(s, sep)
    THEN CHOOSE i \in 1..Len(s) :
            /\ i + Len(sep) - 1 <= Len(s)
            /\ SubSeq(s, i, i + Len(sep) - 1) = sep
            /\ \A j \in 1..(i - 1) : SubSeq(s, j, j + Len(sep) - 1) # sep
    ELSE 0

\* s.split(sep), given the first index i of sep in s
RECURSIVE SplitFrom(_, _, _)
SplitFrom(s, sep, i) ==
    IF i = 0 THEN <<s>>
    ELSE <<SubSeq(s, 1, i - 1)>>
         \o SplitFrom(DropFirst(s, i + Len(sep) - 1), sep,
                      FirstIndex(DropFirst(s, i + Len(sep) - 1), sep))

\* s.split(sep): the list of the pieces between the occurrences of sep
Split(s, sep) == SplitFrom(s, sep, FirstIndex(s, sep))

SplitOnceAt(s, sep, i) ==
    IF i = 0 THEN <<s>>
    ELSE <<SubSeq(s, 1, i - 1), DropFirst(s, i + Len(sep) - 1)>>

\* s.split(sep, 1): at most one split
SplitOnce(s, sep) == SplitOnceAt(s, sep, FirstIndex(s, sep))

\* parts[0], parts[-1]
First(parts) == parts[1]
Last(parts) == parts[Len(parts)]

\* sep.join(parts)
RECURSIVE Join(_, _)
Join(parts, sep) ==
    IF parts = <<>> THEN <<>>
    ELSE IF Len(parts) = 1 THEN parts[1]
    ELSE parts[1] \o sep \o Join(Tail(parts), sep)

\* s.strip(): leading and trailing blanks removed
RECURSIVE LStrip(_)
LStrip(s) == IF s # <<>> /\ Head(s) = " " THEN LStrip(Tail(s)) ELSE s

RECURSIVE RStrip(_)
RStrip(s) == IF s # <<>> /\ s[Len(s)] = " " THEN RStrip(SubSeq(s, 1, Len(s) - 1)) ELSE s

Strip(s) == RStrip(LStrip(s))

\* the decimal digits, in order
Digits == <<"0", "1", "2", "3", "4", "5", "6", "7", "8", "9">>

IsDigit(c) == \E i \in 1..Len(Digits) : Digits[i] = c

DigitVal(c) == (CHOOSE i \in 1..Len(Digits) : Digits[i] = c) - 1

\* the digits of a stripped int() argument, its sign dropped
Unsigned(t) == IF t # <<>> /\ Head(t) \in {"+", "-"} THEN Tail(t) ELSE t

AllDigits(b) == b # <<>> /\ \A i \in 1..Len(b) : IsDigit(b[i])

\* int(s) does not raise ValueError
IsIntLiteral(s) == AllDigits(Unsigned(Strip(s)))

RECURSIVE DigitsVal(_)
DigitsVal(b) ==
    IF b = <<>> THEN 0
    ELSE 10 * DigitsVal(SubSeq(b, 1, Len(b) - 1)) + DigitVal(b[Len(b)])

SignedVal(t) == IF Head(t) = "-" THEN 0 - DigitsVal(Tail(t)) ELSE DigitsVal(Unsigned(t))

\* int(s), for s with IsIntLiteral(s)
IntOf(s) == SignedVal(Strip(s))

RECURSIVE NatStr(_)
NatStr(n) ==
    IF n < 10 THEN <<Digits[n + 1]>>
    ELSE NatStr(n \div 10) \o <<Digits[(n % 10) + 1]>>

\* str(n) of an int
IntStr(n) == IF n < 0 THEN <<"-">> \o NatStr(0 - n) ELSE NatStr(n)

(***************************************************************************)
(* Version normalisation (migrate_repo.py, lines 109-145 and 431-436).     *)
(***************************************************************************)
\* v[:-2] if v.endswith(".*") else v
StripWildcard(v) == IF EndsWith(v, <<".", "*">>) THEN SubSeq(v, 1, Len(v) - 2) ELSE v

\* v.split(".post")[0] if ".post" in v else v
StripPost(v) ==
    IF Contains(v, <<".", "p", "o", "s", "t">>)
    THEN First(Split(v, <<".", "p", "o", "s", "t">>))
    ELSE v

\* strip_version_markers keeping a trailing ".*"
MutKeepWildcard(version) ==
    StripPost(Replace(Replace(version, <<"^">>, <<">", "=">>), <<"~">>, <<">", "=">>))

strip_version_markers(version) ==
    StripPost(StripWildcard(
        Replace(Replace(version, <<"^">>, <<">", "=">>), <<"~">>, <<">", "=">>)))

\* ensure_patch_version appending ".0" to every version
MutAlwaysAppend(version) == version \o <<".", "0">>

ensure_patch_version(version) ==
    IF ~EndsWith(version, <<".", "0">>) THEN version \o <<".", "0">> ELSE version

normalize_version_string(version) ==
    ensure_patch_version(strip_version_markers(version))

\* the argument of int() in add_upper_bound
MajorText(version) == Replace(First(Split(version, <<".">>)), <<">", "=">>, <<>>)

\* f"{version}, <{major}.0" with major = int(text) + 1, or int's ValueError
WithUpperBound(version, text) ==
    IF IsIntLiteral(text)
    THEN Returned(version \o <<",", " ", "<">> \o IntStr(IntOf(text) + 1) \o <<".", "0">>)
    ELSE Raised("ValueError")

add_upper_bound(version) == WithUpperBound(version, MajorText(version))

add_upper_bound_if_needed(normalized) ==
    IF StartsWith(normalized, <<">", "=">>)
    THEN add_upper_bound(normalized)
    ELSE Returned(normalized)

\* None when the pipeline raises ValueError
validate_version_constraint(version) ==
    OrNone(add_upper_bound_if_needed(normalize_version_string(version)))

\* normalize_version after normalize_version_string
UpperBoundIfLower(normalized) ==
    IF StartsWith(normalized, <<">", "=">>)
    THEN add_upper_bound(normalized)
    ELSE Returned(normalized)

\* raises where validate_version_constraint returns None
normalize_version(constraint) == UpperBoundIfLower(normalize_version_string(constraint))

(***************************************************************************)
(* Ordering of strings: sorted() compares code points, left to right.      *)
(***************************************************************************)
\* the characters of the model, in code-point order
Alphabet ==
    <<"\n", " ", "*", "+", ",", "-", ".", "/",
      "0", "1", "2", "3", "4", "5", "6", "7", "8", "9",
      ":", ";", "<", "=", ">", "@", "[", "]", "^", "_",
      "a", "b", "c", "d", "e", "f", "g", "h", "i", "j", "k", "l", "m",
      "n", "o", "p", "q", "r", "s", "t", "u", "v", "w", "x", "y", "z", "~">>

Ord(c) == CHOOSE i \in 1..Len(Alphabet) : Alphabet[i] = c

\* a < b for Python strings
RECURSIVE StrLess(_, _)
StrLess(a, b) ==
    IF b = <<>> THEN FALSE
    ELSE IF a = <<>> THEN TRUE
    ELSE IF Head(a) = Head(b) THEN StrLess(Tail(a), Tail(b))
    ELSE Ord(Head(a)) < Ord(Head(b))

\* the sorted list with x inserted before its first element greater than x
RECURSIVE InsertSorted(_, _)
InsertSorted(x, sorted) ==
    IF sorted = <<>> THEN <<x>>
    ELSE IF StrLess(x, Head(sorted)) THEN <<x>> \o sorted
    ELSE <<Head(sorted)>> \o InsertSorted(x, Tail(sorted))

\* sorted(xs) for a list of strings
RECURSIVE Sorted(_)
Sorted(xs) ==
    IF xs = <<>> THEN <<>>
    ELSE InsertSorted(xs[Len(xs)], Sorted(SubSeq(xs, 1, Len(xs) - 1)))

\* the least string of a non-empty finite set
Least(S) == CHOOSE x \in S : \A y \in S \ {x} : StrLess(x, y)

\* sorted(S) for a finite set of strings
RECURSIVE SortedOfSet(_)
SortedOfSet(S) ==
    IF S = {} THEN <<>>
    ELSE <<Least(S)>> \o SortedOfSet(S \ {Least(S)})

\* the elements of a list, as a set
Range(xs) == {xs[i] : i \in 1..Len(xs)}

\* [f(x) for x in xs]
MapSeq(F(_), xs) == [i \in 1..Len(xs) |-> F(xs[i])]

\* the index of the first element with P, 0 if there is none
FirstWith(P(_), xs) ==
    IF \E i \in 1..Len(xs) : P(xs[i])
    THEN CHOOSE i \in 1..Len(xs) : P(xs[i]) /\ \A j \in 1..(i - 1) : ~P(xs[j])
    ELSE 0

\* the last element of xs with P; xs has one
LastWith(P(_), xs) ==
    xs[CHOOSE i \in 1..Len(xs) : P(xs[i]) /\ \A j \in (i + 1)..Len(xs) : ~P(xs[j])]

RECURSIVE Flatten(_)
Flatten(lists) == IF lists = <<>> THEN <<>> ELSE Head(lists) \o Flatten(Tail(lists))

\* the first failure of a list of results, or the list of their values
Failed(r) == ~r.ok
Value(r) == r.val
CollectAt(results, i) == IF i = 0 THEN Returned(MapSeq(Value, results)) ELSE results[i]
Collect(results) == CollectAt(results, FirstWith(Failed, results))

(***************************************************************************)
(* Dependency declarations of the legacy manifest (migrate_repo.py, lines  *)
(* 79-81 and 478-555).  A constraint is a version string, StrC(v), or a    *)
(* mapping, DictC(d), from key names to values.                            *)
(***************************************************************************)
StrC(v) == [kind |-> "str", s |-> v]
DictC(d) == [kind |-> "dict", d |-> d]

\* key in constraint
HasKey(d, k) == k \in DOMAIN d

\* constraint.get(key), None when missing
GetKey(d, k) == IF HasKey(d, k) THEN Some(d[k]) ELSE None

\* the truth value of constraint.get(key) for a string value
Truthy(o) == o.some /\ o.val # <<>>

extract_dep_name(dep) == First(Split(First(Split(dep, <<" ">>)), <<"[">>))

format_dep_with_extras(dep, extras, version) ==
    dep \o <<"[">> \o Join(extras, <<",">>) \o <<"]", " ">> \o version

\* f"{dep} {version}"
NameVersion(dep, version) == dep \o <<" ">> \o version

\* a constraint is falsy exactly when it is the empty string
format_simple_dependency(dep, constraint) ==
    IF constraint = <<>> THEN Returned(dep)
    ELSE Then(normalize_version(constraint), LAMBDA v : Returned(NameVersion(dep, v)))

has_non_version_keys(d) ==
    \E key \in {"path", "git", "url", "develop"} : HasKey(d, key)

\* the directory that relative paths are resolved against (the process's cwd)
Cwd == <<"/", "w">>

\* the components of a path with "." dropped and ".." applied, onto a stack
RECURSIVE ResolveParts(_, _)
ResolveParts(stack, parts) ==
    IF parts = <<>> THEN stack
    ELSE IF Head(parts) \in {<<>>, <<".">>} THEN ResolveParts(stack, Tail(parts))
    ELSE IF Head(parts) = <<".", ".">>
         THEN ResolveParts(IF stack = <<>> THEN <<>> ELSE SubSeq(stack, 1, Len(stack) - 1),
                           Tail(parts))
    ELSE ResolveParts(Append(stack, Head(parts)), Tail(parts))

\* str(Path(p).resolve()), with no symbolic links on the way
ResolvePath(p) ==
    <<"/">> \o Join(ResolveParts(IF StartsWith(p, <<"/">>) THEN <<>>
                                 ELSE ResolveParts(<<>>, Split(Cwd, <<"/">>)),
                                 Split(p, <<"/">>)),
                    <<"/">>)

\* Path.as_uri() of an absolute path
AsUri(abs) == <<"f", "i", "l", "e", ":", "/", "/">> \o abs

format_path_dependency(dep, d) ==
    dep \o <<" ", "@", " ">> \o AsUri(ResolvePath(d["path"]))

\* GitRef preferring the tag to the revision
MutTagFirst(d) ==
    IF Truthy(GetKey(d, "tag")) THEN GetKey(d, "tag")
    ELSE IF Truthy(GetKey(d, "rev")) THEN GetKey(d, "rev")
    ELSE GetKey(d, "branch")

\* constraint.get("rev") or constraint.get("tag") or constraint.get("branch")
GitRef(d) ==
    IF Truthy(GetKey(d, "rev")) THEN GetKey(d, "rev")
    ELSE IF Truthy(GetKey(d, "tag")) THEN GetKey(d, "tag")
    ELSE GetKey(d, "branch")

GitWithRef(dep, git_url, ref) ==
    IF Truthy(ref)
    THEN dep \o <<" ", "@", " ", "g", "i", "t", "+">> \o git_url \o <<"@">> \o ref.val
    ELSE dep \o <<" ", "@", " ", "g", "i", "t", "+">> \o git_url

format_git_dependency(dep, d) == GitWithRef(dep, d["git"], GitRef(d))

format_url_dependency(dep, d) == dep \o <<" ", "@", " ">> \o d["url"]

format_non_version_dependency(dep, d) ==
    IF HasKey(d, "path") THEN format_path_dependency(dep, d)
    ELSE IF HasKey(d, "git") THEN format_git_dependency(dep, d)
    ELSE IF HasKey(d, "url") THEN format_url_dependency(dep, d)
    ELSE dep

\* constraint.get("extras", [])
ExtrasOf(d) == IF HasKey(d, "extras") THEN d["extras"] ELSE <<>>

VersionWithExtras(dep, extras, version) ==
    IF extras # <<>> THEN format_dep_with_extras(dep, extras, version)
    ELSE NameVersion(dep, version)

format_dict_dependency(dep, d) ==
    IF has_non_version_keys(d) THEN Returned(format_non_version_dependency(dep, d))
    ELSE IF ~HasKey(d, "version") THEN Returned(dep)
    ELSE Then(normalize_version(d["version"]),
              LAMBDA version : Returned(VersionWithExtras(dep, ExtrasOf(d), version)))

\* what format_dependency writes to stdout: for every constraint it goes
\* through format_dict_dependency or format_simple_dependency, and neither
\* these nor the functions they call print
format_dependency_output(dep, constraint) == <<>>

format_dependency(dep, constraint) ==
    IF constraint.kind = "dict"
    THEN format_dict_dependency(dep, constraint.d)
    ELSE format_simple_dependency(dep, constraint.s)

(***************************************************************************)
(* The manifest document.  Doc: the tables the program reads and writes.   *)
(*   tool      None, or [poetry, hatch, mypy, ruff]                        *)
(*   poetry    None, or [dependencies, group]: lists of <<name,constraint>>*)
(*             in document order; group is the list of the groups' lists   *)
(*   project   None, or [requires_python, dependencies]                    *)
(*   depgroups None, or the list dependency-groups.dev                     *)
(* Manifest transformation: migrate_repo.py, lines 558-718.                *)
(***************************************************************************)
PythonName == <<"p", "y", "t", "h", "o", "n">>

IsPythonItem(item) == item[1] = PythonName

\* deps_dict.get("python", "^3.12")
PythonAt(deps, i) == IF i = 0 THEN <<"^", "3", ".", "1", "2">> ELSE deps[i][2].s

PythonConstraint(deps) == PythonAt(deps, FirstWith(IsPythonItem, deps))

is_not_python_dep(dep_name) == dep_name # PythonName

get_non_python_deps(deps) == SelectSeq(deps, LAMBDA item : is_not_python_dep(item[1]))

FormatItem(item) == format_dependency(item[1], item[2])

\* (deps, python_version), or the ValueError of normalize_version
extract_dependencies(poetry) ==
    Then(normalize_version(PythonConstraint(poetry.dependencies)),
         LAMBDA python_version :
            Then(Collect(MapSeq(FormatItem, get_non_python_deps(poetry.dependencies))),
                 LAMBDA deps : Returned([deps |-> Sorted(deps),
                                         python_version |-> python_version])))

get_all_group_deps(groups) == Flatten(groups)

extract_dev_dependencies(poetry) ==
    Collect(MapSeq(FormatItem, get_all_group_deps(poetry.group)))

StubPrefix == <<"t", "y", "p", "e", "s", "-">>
StubVersion == <<" ", ">", "=", "2", ".", "0", ".", "0", ",", " ", "<", "3", ".", "0">>

\* f"types-{pkg} >=2.0.0, <3.0"
StubDep(pkg) == StubPrefix \o pkg \o StubVersion

build_type_stub_deps(missing_stubs) == MapSeq(StubDep, missing_stubs)

build_standard_tool_deps ==
    << <<"p", "y", "t", "e", "s", "t", " ", ">", "=", "8", ".", "0", ".", "0", ",", " ", "<", "9", ".", "0">>,
       <<"r", "u", "f", "f", " ", ">", "=", "0", ".", "1", ".", "3", ",", " ", "<", "0", ".", "2", ".", "0">>,
       <<"m", "y", "p", "y", " ", ">", "=", "1", ".", "6", ".", "1", ",", " ", "<", "2", ".", "0", ".", "0">>,
       <<"d", "e", "p", "t", "r", "y", " ", ">", "=", "0", ".", "1", "4", ".", "2", ",", " ", "<", "0", ".", "1", "5", ".", "0">> >>

\* filter_new_deps keeping the declarations whose name is already present
MutKeepPresent(deps, existing_names) == deps

filter_new_deps(deps, existing_names) ==
    SelectSeq(deps, LAMBDA d : extract_dep_name(d) \notin existing_names)

get_existing_dep_names(existing) == {extract_dep_name(existing[i]) : i \in 1..Len(existing)}

get_new_stubs(missing_stubs, existing_names) ==
    filter_new_deps(build_type_stub_deps(missing_stubs), existing_names)

\* get_new_tools adding no tool
MutNoTools(existing_names) == <<>>

get_new_tools(existing_names) == filter_new_deps(build_standard_tool_deps, existing_names)

\* sorted(existing + stubs + tools)
DevList(existing, missing_stubs, existing_names) ==
    Sorted(existing \o get_new_stubs(missing_stubs, existing_names)
                    \o get_new_tools(existing_names))

\* the dev list, or the ValueError of normalize_version
build_dev_dependencies(poetry, analysis) ==
    Then(extract_dev_dependencies(poetry),
         LAMBDA existing : Returned(DevList(existing, analysis.missing_stubs,
                                            get_existing_dep_names(existing))))

(***************************************************************************)
(* Repository analysis (migrate_repo.py, lines 28-376).                    *)
(* The source tree is the list of its *.py files in the order glob yields  *)
(* them.  A file: [path, parses, hasAsync, hasAnnotation, hasLongLine,     *)
(* imports]; path is relative to the repository root, parses says whether  *)
(* ast.parse succeeds, and the three AST facts hold of the parsed tree.    *)
(***************************************************************************)
TYPED_PACKAGES ==
    { <<"s", "q", "l", "a", "l", "c", "h", "e", "m", "y">>,
      <<"p", "y", "d", "a", "n", "t", "i", "c">>,
      <<"f", "a", "s", "t", "a", "p", "i">>,
      <<"s", "t", "a", "r", "l", "e", "t", "t", "e">>,
      <<"p", "y", "t", "e", "s", "t">>,
      <<"c", "l", "i", "c", "k">>,
      <<"i", "n", "j", "e", "c", "t">>,
      <<"h", "t", "t", "p", "x">>,
      <<"j", "i", "n", "j", "a", "2">>,
      <<"a", "i", "o", "h", "t", "t", "p">>,
      <<"a", "s", "y", "n", "c", "p", "g">>,
      <<"t", "y", "p", "e", "r">>,
      <<"r", "i", "c", "h">>,
      <<"u", "v", "i", "c", "o", "r", "n">>,
      <<"w", "e", "b", "s", "o", "c", "k", "e", "t", "s">> }

BUILTIN_MODULES ==
    { <<"o", "s">>,
      <<"s", "y", "s">>,
      <<"p", "a", "t", "h", "l", "i", "b">>,
      <<"t", "y", "p", "i", "n", "g">>,
      <<"c", "o", "l", "l", "e", "c", "t", "i", "o", "n", "s">>,
      <<"d", "a", "t", "e", "t", "i", "m", "e">>,
      <<"j", "s", "o", "n">>,
      <<"r", "e">>,
      <<"t", "i", "m", "e">>,
      <<"r", "a", "n", "d", "o", "m">>,
      <<"m", "a", "t", "h">>,
      <<"i", "t", "e", "r", "t", "o", "o", "l", "s">>,
      <<"f", "u", "n", "c", "t", "o", "o", "l", "s">> }

\* str(p) of a file of the tree
AbsPath(repo, f) == repo \o <<"/">> \o f.path

\* p.name
BaseName(path) == Last(Split(path, <<"/">>))

\* the index of the last "." of a name, 0 if there is none
LastDot(name) ==
    IF \E i \in 1..Len(name) : name[i] = "."
    THEN CHOOSE i \in 1..Len(name) :
            name[i] = "." /\ \A j \in (i + 1)..Len(name) : name[j] # "."
    ELSE 0

\* the name without its last suffix
StemOfName(name) ==
    IF LastDot(name) <= 1 THEN name ELSE SubSeq(name, 1, LastDot(name) - 1)

\* p.stem
Stem(path) == StemOfName(BaseName(path))

\* the last but one component, "" when there is none
LastButOne(parts) == IF Len(parts) < 2 THEN <<>> ELSE parts[Len(parts) - 1]

\* p.parent.name
ParentName(path) == LastButOne(Split(path, <<"/">>))

get_project_deps(doc) == IF doc.project.some THEN doc.project.val.dependencies ELSE <<>>

get_dev_deps(doc) == IF doc.depgroups.some THEN doc.depgroups.val ELSE <<>>

find_duplicates_in_sequence(names) ==
    {names[i] : i \in {k \in 1..Len(names) : \E j \in 1..(k - 1) : names[j] = names[k]}}

find_duplicate_dependencies(doc) ==
    find_duplicates_in_sequence(MapSeq(extract_dep_name, get_project_deps(doc) \o get_dev_deps(doc)))

\* (parts[0], parts[1] if len(parts) > 1 else "")
NameAndRest(parts) == <<parts[1], IF Len(parts) > 1 THEN parts[2] ELSE <<>> >>

extract_dep_version(dep) == NameAndRest(SplitOnce(dep, <<" ">>))

\* is_invalid_version recording nothing
MutNeverInvalid(name, version) == FALSE

is_invalid_version(name, version) ==
    version # <<>> /\ ~validate_version_constraint(version).some

validate_version_constraints(doc) ==
    SelectSeq(MapSeq(extract_dep_version, get_project_deps(doc) \o get_dev_deps(doc)),
              LAMBDA nv : is_invalid_version(nv[1], nv[2]))

\* the files glob yields whose str() does not hold ".venv"
get_python_files(repo, files) ==
    SelectSeq(files, LAMBDA f : ~Contains(AbsPath(repo, f), <<".", "v", "e", "n", "v">>))

\* module_map.get(stem) for the map build_module_map makes: later files
\* overwrite earlier ones
build_module_map(repo, files, stem) ==
    AbsPath(repo, LastWith(LAMBDA f : Stem(f.path) = stem, files))

find_conflicts(repo, files) ==
    MapSeq(LAMBDA f : <<Stem(f.path), AbsPath(repo, f)>>,
           SelectSeq(files,
                     LAMBDA f : build_module_map(repo, files, Stem(f.path)) # AbsPath(repo, f)))

check_module_conflicts(repo, files) == find_conflicts(repo, get_python_files(repo, files))

InitPy == <<"_", "_", "i", "n", "i", "t", "_", "_", ".", "p", "y">>

\* f.name == "__init__.py" and f.parent != repo_path
IsPackageInit(f) == BaseName(f.path) = InitPy /\ Len(Split(f.path, <<"/">>)) > 1

LocalNames(scanned) ==
    {Stem(scanned[i].path) : i \in 1..Len(scanned)}
    \cup {ParentName(scanned[i].path) : i \in {k \in 1..Len(scanned) : IsPackageInit(scanned[k])}}

extract_local_module_names(repo, files) == LocalNames(get_python_files(repo, files))

is_local_module(module_name, repo, files) ==
    module_name \in extract_local_module_names(repo, files)

\* the imports of the files that parse
collect_all_imports(files) ==
    UNION {IF files[i].parses THEN files[i].imports ELSE {} : i \in 1..Len(files)}

filter_external_imports(imports, repo, files) ==
    {m \in (imports \ BUILTIN_MODULES) \ TYPED_PACKAGES : ~is_local_module(m, repo, files)}

find_required_type_stubs(repo, files) ==
    SortedOfSet(filter_external_imports(collect_all_imports(get_python_files(repo, files)),
                                        repo, files))

file_has_async_code(f) == f.parses /\ f.hasAsync

AnyAsync(scanned) == \E i \in 1..Len(scanned) : file_has_async_code(scanned[i])

has_async_code(repo, files) == AnyAsync(get_python_files(repo, files))

\* is_annotation_node is defined nowhere in migrate_repo.py: the call raises
\* NameError for the first node of the first tree that parsed.
is_annotation_node_defined == FALSE

file_has_type_annotations(f) ==
    IF ~f.parses THEN Returned(FALSE)
    ELSE IF is_annotation_node_defined THEN Returned(f.hasAnnotation)
    ELSE Raised("NameError")

\* any() stops at the first file for which the test is true or raises
Stops(r) == ~r.ok \/ r.val
AnyAt(res, i) == IF i = 0 THEN Returned(FALSE) ELSE res[i]
AnyResult(res) == AnyAt(res, FirstWith(Stops, res))

has_type_annotations(repo, files) ==
    AnyResult(MapSeq(file_has_type_annotations, get_python_files(repo, files)))

AnyLong(scanned) == \E i \in 1..Len(scanned) : scanned[i].hasLongLine

has_long_lines(repo, files) == AnyLong(get_python_files(repo, files))

\* project.get("requires-python", ">=3.12,<4.0")
RequiresPython(doc) ==
    IF doc.project.some /\ doc.project.val.requires_python.some
    THEN doc.project.val.requires_python.val
    ELSE <<">", "=", "3", ".", "1", "2", ",", "<", "4", ".", "0">>

extract_python_versions(doc) == MapSeq(Strip, Split(RequiresPython(doc), <<",">>))

\* the RepoAnalysis record, or the NameError of has_type_annotations
create_repo_analysis(doc, repo, files) ==
    Then(has_type_annotations(repo, files),
         LAMBDA annotations :
            Returned([duplicate_deps |-> find_duplicate_dependencies(doc),
                      invalid_versions |-> validate_version_constraints(doc),
                      module_conflicts |-> check_module_conflicts(repo, files),
                      missing_stubs |-> find_required_type_stubs(repo, files),
                      has_async |-> has_async_code(repo, files),
                      has_type_annotations |-> annotations,
                      has_long_lines |-> has_long_lines(repo, files),
                      python_versions |-> extract_python_versions(doc)]))

\* load_toml: the document, or the error of reading or parsing the file
load_toml(file) ==
    IF file.kind = "missing" THEN Raised("FileNotFoundError")
    ELSE IF file.kind = "unparsable" THEN Raised("ParseError")
    ELSE Returned(file.doc)

analyze_repo(file, repo, files) ==
    Then(load_toml(file), LAMBDA doc : create_repo_analysis(doc, repo, files))

(***************************************************************************)
(* Tool configuration (migrate_repo.py, lines 379-428).  A table is a      *)
(* function from option names to values; a | b is Merge(a, b).             *)
(***************************************************************************)
EmptyTable == [k \in {} |-> TRUE]

\* a | b: the keys of both, b's value where both have the key
Merge(a, b) == b @@ a

LineLength == 100

build_async_mypy_config == [k \in {"strict_optional", "warn_unused_awaits"} |-> TRUE]

build_strict_mypy_config == [k \in {"strict", "warn_return_any"} |-> TRUE]

build_mypy_config(analysis) ==
    Merge(Merge(IF analysis.has_async THEN build_async_mypy_config ELSE EmptyTable,
                IF analysis.has_type_annotations THEN build_strict_mypy_config
                ELSE EmptyTable),
          IF analysis.module_conflicts # <<>>
          THEN [k \in {"exclude"} |-> << <<"b", "e", "f", "o", "r", "e", "/", ".", "*">> >>]
          ELSE EmptyTable)

\* has_before_directory_conflicts holding for every conflict
MutAnyConflict(conflicts) == conflicts # <<>>

has_before_directory_conflicts(conflicts) ==
    \E i \in 1..Len(conflicts) : Contains(conflicts[i][2], <<"b", "e", "f", "o", "r", "e", "/">>)

build_ruff_config(analysis) ==
    Merge(IF analysis.has_long_lines THEN [k \in {"line-length"} |-> LineLength]
          ELSE EmptyTable,
          IF has_before_directory_conflicts(analysis.module_conflicts)
          THEN [k \in {"exclude"} |-> << <<"b", "e", "f", "o", "r", "e">> >>]
          ELSE EmptyTable)

configure_tools(analysis) ==
    [mypy |-> build_mypy_config(analysis), ruff |-> build_ruff_config(analysis)]

(***************************************************************************)
(* The rewritten manifest (migrate_repo.py, lines 659-718).  The project   *)
(* metadata copied from the legacy block (name, version, description,      *)
(* authors) is left out: nothing below reads it.                           *)
(***************************************************************************)
build_project_section(poetry) ==
    Then(extract_dependencies(poetry),
         LAMBDA d : Returned([requires_python |-> Some(d.python_version),
                              dependencies |-> d.deps]))

\* doc["dependency-groups"] is set only for a non-empty list
add_dev_groups(dev_deps) == IF dev_deps # <<>> THEN Some(dev_deps) ELSE None

\* the hatch table of initialize_pyproject_doc, updated with the tool tables
NewDoc(tool_config, project, dev_deps) ==
    [tool |-> Some([poetry |-> None, hatch |-> TRUE,
                    mypy |-> Some(tool_config.mypy),
                    ruff |-> Some(tool_config.ruff)]),
     project |-> Some(project),
     depgroups |-> add_dev_groups(dev_deps)]

build_new_pyproject(poetry, analysis) ==
    Then(build_project_section(poetry),
         LAMBDA project :
            Then(build_dev_dependencies(poetry, analysis),
                 LAMBDA dev_deps :
                    Returned(NewDoc(configure_tools(analysis), project, dev_deps))))

has_poetry_config(doc) == doc.tool.some /\ doc.tool.val.poetry.some

\* what convert_pyproject did: the value it returned, whether write_toml ran,
\* and the document on disk afterwards
Converted(returned, wrote, doc) == [returned |-> returned, wrote |-> wrote, doc |-> doc]

\* convert_pyproject writing the manifest even without a legacy block
MutConvertAnyway(file, analysis) ==
    Then(load_toml(file),
         LAMBDA doc :
            IF ~has_poetry_config(doc) THEN Returned(Converted(FALSE, TRUE, doc))
            ELSE Then(build_new_pyproject(doc.tool.val.poetry.val, analysis),
                      LAMBDA new_doc : Returned(Converted(TRUE, TRUE, new_doc))))

convert_pyproject(file, analysis) ==
    Then(load_toml(file),
         LAMBDA doc :
            IF ~has_poetry_config(doc) THEN Returned(Converted(FALSE, FALSE, doc))
            ELSE Then(build_new_pyproject(doc.tool.val.poetry.val, analysis),
                      LAMBDA new_doc : Returned(Converted(TRUE, TRUE, new_doc))))

\* not has_poetry and has_uv, of the document load_toml returns
is_already_migrated(doc) ==
    ~has_poetry_config(doc) /\ (doc.project.some /\ doc.depgroups.some)

(***************************************************************************)
(* The tracking store (migrate_repo.py, lines 721-761).                    *)
(*   store: [kind |-> "missing"], or [kind |-> "ok", repos |-> list of     *)
(*   [path, status, last_updated, notes]]                                  *)
(***************************************************************************)
\* Path.home() / "Work"
WorkRoot == <<"/", "w">>

\* date.today().isoformat()
Today == "today"

\* str(repo_path.relative_to(Path.home() / "Work")), or its ValueError
RelativeToWork(repo) ==
    IF repo = WorkRoot THEN Returned(<<".">>)
    ELSE IF StartsWith(repo, WorkRoot \o <<"/">>)
    THEN Returned(DropFirst(repo, Len(WorkRoot) + 1))
    ELSE Raised("ValueError")

load_manifest(st) ==
    IF st.kind = "missing" THEN Raised("FileNotFoundError") ELSE Returned(st)

\* find_repo_in_manifest taking the first record, whatever its path
MutFirstRecord(st, rel_path) == IF st.repos = <<>> THEN 0 ELSE 1

\* the index of the first record with that path, 0 if there is none
find_repo_in_manifest(st, rel_path) ==
    FirstWith(LAMBDA entry : entry.path = rel_path, st.repos)

update_repo_entry(entry, status, notes) ==
    [entry EXCEPT !.status = status, !.last_updated = Today, !.notes = notes]

\* if repo_entry: update_repo_entry(...); save_manifest(manifest)
UpdatedAt(st, i, status, notes) ==
    IF i = 0 THEN [store |-> st, saved |-> FALSE]
    ELSE [store |-> [st EXCEPT !.repos[i] = update_repo_entry(st.repos[i], status, notes)],
          saved |-> TRUE]

\* update_manifest: [store, saved] or a raised error
update_manifest(st, repo, status, notes) ==
    Then(load_manifest(st),
         LAMBDA manifest_ :
            Then(RelativeToWork(repo),
                 LAMBDA rel_path :
                    Returned(UpdatedAt(manifest_, find_repo_in_manifest(manifest_, rel_path),
                                       status, notes))))

(***************************************************************************)
(* The external commands (migrate_repo.py, lines 764-928).                 *)
(* A command: [argv, args]: the fixed words and the computed arguments.    *)
(***************************************************************************)
UV_PATH == "/home/jon/Work/.local/bin/uv"

\* the scanned files whose str() does not hold "before/", relative to the repo
find_python_files(repo, files) ==
    MapSeq(LAMBDA f : f.path,
           SelectSeq(get_python_files(repo, files),
                     LAMBDA f : ~Contains(AbsPath(repo, f),
                                          <<"b", "e", "f", "o", "r", "e", "/">>)))

build_base_commands ==
    << [argv |-> <<UV_PATH, "sync", "--refresh">>, args |-> <<>>],
       [argv |-> <<UV_PATH, "sync", "--group", "dev">>, args |-> <<>>] >>

build_check_commands_list(python_files) ==
    << [argv |-> <<UV_PATH, "run", "ruff", "check", ".">>, args |-> <<>>],
       [argv |-> <<UV_PATH, "run", "mypy">>, args |-> python_files],
       [argv |-> <<UV_PATH, "run", "pytest">>, args |-> <<>>] >>

build_check_commands(python_files) ==
    IF python_files = <<>> THEN build_base_commands
    ELSE build_base_commands \o build_check_commands_list(python_files)

\* the error text of run_cmd: "" or the command line and the captured stderr
NoError == [text |-> "", cmd |-> [argv |-> <<>>, args |-> <<>>], stderr |-> ""]
ErrorRunning(cmd, stderr) == [text |-> "Error running", cmd |-> cmd, stderr |-> stderr]

\* (True, "") for exit status 0, else (False, error text)
run_cmd(cmd, rc, stderr) ==
    IF rc = 0 THEN [success |-> TRUE, error |-> NoError]
    ELSE [success |-> FALSE, error |-> ErrorRunning(cmd, stderr)]

\* execute_check_commands without its early return
MutAlwaysNext(success) == "next"

\* execute_check_commands, one iteration: what the loop does after a command
execute_check_commands(success) == IF success THEN "next" ELSE "return"

(***************************************************************************)
(* Commit notes and the commit (migrate_repo.py, lines 931-1001).          *)
(***************************************************************************)
build_note_for_conflicts ==
    <<"e", "x", "c", "l", "u", "d", "e", "d", " ", "b", "e", "f", "o", "r", "e", "/", " ", "d", "i", "r", "e", "c", "t", "o", "r", "y">>

build_note_for_stubs(stubs) ==
    <<"a", "d", "d", "e", "d", " ", "t", "y", "p", "e", " ", "s", "t", "u", "b", "s", ":", " ">> \o Join(stubs, <<",", " ">>)

build_note_for_async ==
    <<"c", "o", "n", "f", "i", "g", "u", "r", "e", "d", " ", "a", "s", "y", "n", "c", " ", "m", "y", "p", "y", " ", "c", "h", "e", "c", "k", "s">>

build_note_for_strict ==
    <<"e", "n", "a", "b", "l", "e", "d", " ", "s", "t", "r", "i", "c", "t", " ", "m", "y", "p", "y", " ", "m", "o", "d", "e">>

\* collect_commit_notes with the strict note before the async note
MutStrictBeforeAsync(analysis) ==
    (IF analysis.module_conflicts # <<>> THEN <<build_note_for_conflicts>> ELSE <<>>)
    \o (IF analysis.missing_stubs # <<>> THEN <<build_note_for_stubs(analysis.missing_stubs)>>
        ELSE <<>>)
    \o (IF analysis.has_type_annotations THEN <<build_note_for_strict>> ELSE <<>>)
    \o (IF analysis.has_async THEN <<build_note_for_async>> ELSE <<>>)

collect_commit_notes(analysis) ==
    (IF analysis.module_conflicts # <<>> THEN <<build_note_for_conflicts>> ELSE <<>>)
    \o (IF analysis.missing_stubs # <<>> THEN <<build_note_for_stubs(analysis.missing_stubs)>>
        ELSE <<>>)
    \o (IF analysis.has_async THEN <<build_note_for_async>> ELSE <<>>)
    \o (IF analysis.has_type_annotations THEN <<build_note_for_strict>> ELSE <<>>)

DefaultNote ==
    <<"c", "o", "n", "v", "e", "r", "t", "e", "d", " ", "w", "i", "t", "h", " ", "s", "t", "a", "n", "d", "a", "r", "d", " ", "c", "o", "n", "f", "i", "g", "u", "r", "a", "t", "i", "o", "n">>

\* "; ".join(notes) if notes else default
JoinedOrDefault(notes) == IF notes # <<>> THEN Join(notes, <<";", " ">>) ELSE DefaultNote

build_commit_notes(analysis) == JoinedOrDefault(collect_commit_notes(analysis))

CommitFiles ==
    << <<"p", "y", "p", "r", "o", "j", "e", "c", "t", ".", "t", "o", "m", "l">>,
       <<".", "p", "y", "t", "h", "o", "n", "-", "v", "e", "r", "s", "i", "o", "n">>,
       <<"u", "v", ".", "l", "o", "c", "k">> >>

GitAddCmd == [argv |-> <<"git", "add">>, args |-> CommitFiles]

CommitTitle ==
    <<"c", "h", "o", "r", "e", ":", " ", "m", "i", "g", "r", "a", "t", "e", " ", "f", "r", "o", "m", " ", "p", "o", "e", "t", "r", "y", " ", "t", "o", " ", "u", "v">>

\* CommitMessage without the summary
MutTitleOnly(note) == CommitTitle

\* "\n\n" between the title and the note
CommitMessage(note) == CommitTitle \o <<"\n", "\n">> \o note

GitCommitCmd(note) == [argv |-> <<"git", "commit", "-m">>, args |-> <<CommitMessage(note)>>]

(***************************************************************************)
(* The driver (migrate_repo.py, lines 847-872 and 1004-1091).              *)
(***************************************************************************)
SUCCESS == 0
FAILURE == 1

check_repo_exists(exists) == exists

\* except Exception: every error of analyze_repo becomes None
perform_analysis(file, repo, files) == OrNone(analyze_repo(file, repo, files))

check_already_migrated(file) == is_already_migrated(file.doc)

\* handle_analysis_and_checks without its test of the analysis
MutIgnoreFailedAnalysis(analysis, file) ==
    IF ~analysis.some THEN "SUCCESS"
    ELSE IF check_already_migrated(file) THEN "SUCCESS"
    ELSE "migrate"

\* what handle_analysis_and_checks does with the analysis: return an exit
\* code, or go on to run_migration_and_checks
handle_analysis_and_checks(analysis, file) ==
    IF ~analysis.some THEN "FAILURE"
    ELSE IF check_already_migrated(file) THEN "SUCCESS"
    ELSE "migrate"

\* major, minor = version.split(".")[:2]: ValueError unless two parts
MajorMinor(parts) ==
    IF Len(parts) < 2 THEN Raised("ValueError")
    ELSE Returned(parts[1] \o <<".">> \o parts[2])

extract_python_version(analysis) ==
    MajorMinor(Split(Strip(Replace(analysis.python_versions[1], <<">", "=">>, <<>>)), <<".">>))

\* the text create_python_version_file writes to .python-version
create_python_version_file(version) == version \o <<"\n">>

\* the removals of clean_old_files, in its order
clean_old_files(lock, venv) ==
    (IF lock THEN <<[op |-> "remove", path |-> "poetry.lock"]>> ELSE <<>>)
    \o (IF venv THEN <<[op |-> "remove", path |-> ".venv"]>> ELSE <<>>)

\* perform_migration without its test of convert_pyproject's result
MutAlwaysPin(returned) == "pin"

\* perform_migration after convert_pyproject returned
perform_migration(returned) == IF returned THEN "pin" ELSE "FAILURE"

\* run_migration_and_checks without its test of success
MutAlwaysCommit(success) == "commit"

\* run_migration_and_checks after run_migration_checks returned
run_migration_and_checks(success) == IF success THEN "commit" ELSE "FAILURE"

(***************************************************************************)
(* The inputs of the model: repositories the program can be run on.        *)
(***************************************************************************)
\* file contents: a file that does not parse, and one that does
Broken == [parses |-> FALSE, hasAsync |-> FALSE, hasAnnotation |-> FALSE,
           hasLongLine |-> FALSE, imports |-> {}]
Plain == [parses |-> TRUE, hasAsync |-> FALSE, hasAnnotation |-> FALSE,
          hasLongLine |-> FALSE, imports |-> {}]
FileContents == {Broken, Plain}

VenvDirName == <<".", "v", "e", "n", "v">>
BeforeDirName == <<"b", "e", "f", "o", "r", "e">>

\* src/app.py; .venv/x.py (in the virtual environment); before/app.py (in the
\* before/ directory); daybefore/u.py (in neither, its path holds "before/")
FilePaths ==
    { <<"s", "r", "c", "/", "a", "p", "p", ".", "p", "y">>,
      <<".", "v", "e", "n", "v", "/", "x", ".", "p", "y">>,
      <<"b", "e", "f", "o", "r", "e", "/", "a", "p", "p", ".", "p", "y">>,
      <<"d", "a", "y", "b", "e", "f", "o", "r", "e", "/", "u", ".", "p", "y">> }

FileAt(path, c) ==
    [path |-> path, parses |-> c.parses, hasAsync |-> c.hasAsync,
     hasAnnotation |-> c.hasAnnotation, hasLongLine |-> c.hasLongLine, imports |-> c.imports]

Files == {FileAt(path, c) : path \in FilePaths, c \in FileContents}

\* the trees: lists of at most MaxFiles files with distinct paths
RECURSIVE TreesOfLen(_)
TreesOfLen(n) ==
    IF n = 0 THEN {<<>>}
    ELSE {Append(t, f) : t \in TreesOfLen(n - 1), f \in Files}

Trees ==
    {t \in UNION {TreesOfLen(n) : n \in 0..MaxFiles} :
        \A i, j \in 1..Len(t) : i # j => t[i].path # t[j].path}

\* whether a file lies in the directory dir of the repository root
InDir(f, dir) == First(Split(f.path, <<"/">>)) = dir /\ Len(Split(f.path, <<"/">>)) > 1

Item(name, version) == <<name, StrC(version)>>

ReqName == <<"r", "e", "q", "u", "e", "s", "t", "s">>
BadName == <<"b", "a", "d">>

PythonItem == Item(PythonName, <<"^", "3", ".", "1", "2">>)
\* python = "^3.11"
Python311Item == Item(PythonName, <<"^", "3", ".", "1", "1">>)
ReqItem == Item(ReqName, <<"^", "2", ".", "3", "1", ".", "0">>)
\* a constraint with a non-numeric major
BadItem == Item(BadName, <<"^", "x", ".", "1">>)

PytestItem == Item(<<"p", "y", "t", "e", "s", "t">>, <<"^", "8", ".", "0">>)
RuffItem == Item(<<"r", "u", "f", "f">>, <<"^", "0", ".", "1">>)
MypyItem == Item(<<"m", "y", "p", "y">>, <<"^", "1", ".", "6">>)
DeptryItem == Item(<<"d", "e", "p", "t", "r", "y">>, <<"^", "0", ".", "1", "4">>)

GoodPoetry == [dependencies |-> <<PythonItem, ReqItem>>, group |-> <<>>]

PoetryConfigs ==
    { GoodPoetry,
      [dependencies |-> <<ReqItem>>, group |-> << <<PytestItem>> >>],
      [dependencies |-> <<PythonItem, BadItem>>, group |-> <<>>],
      [dependencies |-> <<PythonItem>>,
       group |-> << <<PytestItem, RuffItem>>, <<MypyItem, DeptryItem>> >>],
      [dependencies |-> <<Python311Item>>, group |-> <<>>] }

Project311 == [requires_python |-> Some(<<">", "=", "3", ".", "1", "1">>), dependencies |-> <<>>]

\* project tables of manifests that already have one
ProjectTables ==
    { Project311,
      [requires_python |-> Some(<<">", "=", "3">>), dependencies |-> <<>>] }

ToolWith(poetry) == Some([poetry |-> poetry, hatch |-> FALSE, mypy |-> None, ruff |-> None])

PytestDev == << <<"p", "y", "t", "e", "s", "t", " ", ">", "=", "8", ".", "0", ".", "0", ",", " ", "<", "9", ".", "0">> >>

\* manifests with the legacy block: alone, or beside a project table
LegacyDocs ==
    {[tool |-> ToolWith(Some(p)), project |-> None, depgroups |-> None] : p \in PoetryConfigs}
    \cup {[tool |-> ToolWith(Some(GoodPoetry)), project |-> Some(t), depgroups |-> None] :
            t \in ProjectTables}

\* manifests without the legacy block
OtherDocs ==
    { [tool |-> ToolWith(None), project |-> Some(Project311), depgroups |-> Some(PytestDev)],
      [tool |-> None, project |-> Some(Project311), depgroups |-> Some(PytestDev)],
      [tool |-> None, project |-> Some(Project311), depgroups |-> None],
      [tool |-> None, project |-> None, depgroups |-> None] }

ManifestFiles ==
    { [kind |-> "missing"], [kind |-> "unparsable"] }
    \cup {[kind |-> "doc", doc |-> d] : d \in LegacyDocs \cup OtherDocs}

\* the resolved repository path: under the workspace root, or outside it
RepoPaths == { <<"/", "w", "/", "r">>, <<"/", "o", "/", "r">> }

Entry(path) == [path |-> path, status |-> "pending", last_updated |-> "earlier", notes |-> <<>>]

Stores ==
    { [kind |-> "missing"],
      [kind |-> "ok", repos |-> <<Entry(<<"q">>), Entry(<<"r">>)>>],
      [kind |-> "ok", repos |-> <<Entry(<<"q">>)>>] }

\* the captured stderr of a failing command
Stderrs == {"E1", "E2"}

\* the exit status and captured stderr of an external command
Outcomes == {[rc |-> 0, stderr |-> ""]} \cup {[rc |-> 1, stderr |-> e] : e \in Stderrs}

(***************************************************************************)
(* State.                                                                  *)
(***************************************************************************)
VARIABLES
    repo,        \* the resolved repo_path
    repoExists,  \* whether that directory exists
    manifest,    \* pyproject.toml on disk
    pinFile,     \* .python-version on disk: None or its text
    lockFile,    \* whether poetry.lock exists
    venvDir,     \* whether the legacy .venv exists
    pyFiles,     \* the *.py files of the tree, in glob order
    store,       \* the tracking store
    pc,          \* the position of the run in migrate_repo
    analysis,    \* the value perform_analysis returned
    conv,        \* how the call of convert_pyproject ended
    cmds,        \* the commands of execute_check_commands
    cmdIdx,      \* the index of the next command of the loop
    checks,      \* the (success, error) pair run_checks returned
    result,      \* what migrate_repo ended with
    events,      \* the side effects of this run, in order
    visited,     \* the driver states this run entered, in order
    run,         \* the number of this invocation
    prev,        \* the disk at the start of this invocation, and how the last ended
    call         \* a function called on its own: its name, arguments and result

world == <<repo, repoExists, manifest, pinFile, lockFile, venvDir, pyFiles, store>>
vars == <<repo, repoExists, manifest, pinFile, lockFile, venvDir, pyFiles, store,
          pc, analysis, conv, cmds, cmdIdx, checks, result, events, visited, run, prev,
          call>>

Pending == [kind |-> "pending", code |-> -1, exc |-> ""]
Exit(code) == [kind |-> "exit", code |-> code, exc |-> ""]
Propagated(exc) == [kind |-> "raised", code |-> -1, exc |-> exc]

NoChecks == [success |-> FALSE, error |-> NoError, ran |-> FALSE]
\* no function has been called on its own
NoCall == [fn |-> "none"]

NotCalled == [called |-> FALSE, ok |-> FALSE, returned |-> FALSE, wrote |-> FALSE]

Snapshot == [manifest |-> manifest, pinFile |-> pinFile, lockFile |-> lockFile,
             venvDir |-> venvDir, pyFiles |-> pyFiles, store |-> store]

Init ==
    /\ repo \in RepoPaths
    /\ repoExists \in BOOLEAN
    /\ manifest \in ManifestFiles
    /\ pinFile = None
    /\ lockFile \in BOOLEAN
    /\ venvDir \in BOOLEAN
    /\ pyFiles \in Trees
    /\ store \in Stores
    \* a directory that does not exist holds nothing
    /\ ~repoExists => manifest.kind = "missing" /\ ~lockFile /\ ~venvDir /\ pyFiles = <<>>
    \* a file of .venv lies in an existing .venv
    /\ (\E i \in 1..Len(pyFiles) : InDir(pyFiles[i], VenvDirName)) => venvDir
    /\ pc = "start"
    /\ analysis = None
    /\ conv = NotCalled
    /\ cmds = <<>>
    /\ cmdIdx = 1
    /\ checks = NoChecks
    /\ result = Pending
    /\ events = <<>>
    /\ visited = <<"start">>
    /\ run = 1
    /\ prev = [ended |-> Pending, wrote |-> FALSE, at |-> Snapshot]
    /\ call = NoCall

Finish(r) == pc' = "done" /\ result' = r

(***************************************************************************)
(* migrate_repo, step by step.                                             *)
(***************************************************************************)
\* migrate_repo: check_repo_exists
CheckRepoExists ==
    /\ pc = "start"
    /\ IF check_repo_exists(repoExists)
       THEN pc' = "analysis" /\ UNCHANGED result
       ELSE Finish(Exit(FAILURE))
    /\ UNCHANGED <<world, analysis, conv, cmds, cmdIdx, checks, events, visited, run, prev>>
    /\ UNCHANGED call

\* migrate_repo: analysis = perform_analysis(repo)
PerformAnalysis ==
    /\ pc = "analysis"
    /\ analysis' = perform_analysis(manifest, repo, pyFiles)
    /\ pc' = "handle"
    /\ UNCHANGED <<world, conv, cmds, cmdIdx, checks, result, events, visited, run, prev>>
    /\ UNCHANGED call

\* handle_analysis_and_checks: return an exit code or run the migration
Handle(next) ==
    CASE next = "FAILURE" -> Finish(Exit(FAILURE))
      [] next = "SUCCESS" -> Finish(Exit(SUCCESS))
      [] OTHER -> pc' = "convert" /\ UNCHANGED result

HandleAnalysis ==
    /\ pc = "handle"
    /\ Handle(handle_analysis_and_checks(analysis, manifest))
    /\ UNCHANGED <<world, analysis, conv, cmds, cmdIdx, checks, events, visited, run, prev>>
    /\ UNCHANGED call

\* perform_migration after convert_pyproject ended as c
Convert(c) ==
    IF ~c.ok
    THEN /\ Finish(Propagated(c.exc))
         /\ conv' = [called |-> TRUE, ok |-> FALSE, returned |-> FALSE, wrote |-> FALSE]
         /\ UNCHANGED <<manifest, events, visited>>
    ELSE /\ conv' = [called |-> TRUE, ok |-> TRUE, returned |-> c.val.returned,
                     wrote |-> c.val.wrote]
         /\ IF c.val.wrote
            THEN /\ manifest' = [kind |-> "doc", doc |-> c.val.doc]
                 /\ events' = Append(events, [op |-> "write_toml", doc |-> c.val.doc])
                 /\ visited' = Append(visited, "converted")
            ELSE UNCHANGED <<manifest, events, visited>>
         /\ IF perform_migration(c.val.returned) = "pin"
            THEN pc' = "pin" /\ UNCHANGED result
            ELSE Finish(Exit(FAILURE))

\* perform_migration: convert_pyproject(repo, analysis)
ConvertPyproject ==
    /\ pc = "convert"
    /\ Convert(convert_pyproject(manifest, analysis.val))
    /\ UNCHANGED <<repo, repoExists, pinFile, lockFile, venvDir, pyFiles, store,
                   analysis, cmds, cmdIdx, checks, run, prev>>
    /\ UNCHANGED call

\* perform_migration after extract_python_version ended as version
Pin(version) ==
    IF ~version.ok
    THEN Finish(Propagated(version.exc)) /\ UNCHANGED <<pinFile, events>>
    ELSE /\ pinFile' = Some(create_python_version_file(version.val))
         /\ events' = Append(events, [op |-> "write_pin",
                                      text |-> create_python_version_file(version.val)])
         /\ pc' = "clean"
         /\ UNCHANGED result

\* perform_migration: extract_python_version, create_python_version_file
CreatePythonVersionFile ==
    /\ pc = "pin"
    /\ Pin(extract_python_version(analysis.val))
    /\ UNCHANGED <<repo, repoExists, manifest, lockFile, venvDir, pyFiles, store,
                   analysis, conv, cmds, cmdIdx, checks, visited, run, prev>>
    /\ UNCHANGED call

\* perform_migration: clean_old_files; the files of a removed .venv go with it
CleanOldFiles ==
    /\ pc = "clean"
    /\ events' = events \o clean_old_files(lockFile, venvDir)
    /\ lockFile' = FALSE
    /\ venvDir' = FALSE
    /\ pyFiles' = SelectSeq(pyFiles, LAMBDA f : ~InDir(f, VenvDirName))
    /\ visited' = Append(visited, "artifacts-cleaned")
    /\ pc' = "build"
    /\ UNCHANGED <<repo, repoExists, manifest, pinFile, store,
                   analysis, conv, cmds, cmdIdx, checks, result, run, prev>>
    /\ UNCHANGED call

\* run_migration_checks, run_checks: the command list is built
BuildCheckCommands ==
    /\ pc = "build"
    /\ cmds' = build_check_commands(find_python_files(repo, pyFiles))
    /\ cmdIdx' = 1
    /\ pc' = "checks"
    /\ UNCHANGED <<world, analysis, conv, checks, result, events, visited, run, prev>>
    /\ UNCHANGED call

\* execute_check_commands after run_cmd returned r for the command at cmdIdx
Loop(r) ==
    IF execute_check_commands(r.success) = "next"
    THEN /\ cmdIdx' = cmdIdx + 1
         /\ visited' = IF cmdIdx = Len(build_base_commands)
                       THEN Append(visited, "dependencies-synced")
                       ELSE visited
         /\ UNCHANGED <<pc, checks>>
    ELSE /\ checks' = [success |-> FALSE, error |-> r.error, ran |-> TRUE]
         /\ pc' = "outcome"
         /\ UNCHANGED <<cmdIdx, visited>>

\* execute_check_commands: one iteration of the loop, a blocking run_cmd
RunCheckCommand ==
    /\ pc = "checks"
    /\ cmdIdx <= Len(cmds)
    /\ \E o \in Outcomes :
         /\ events' = Append(events, [op |-> "run", cmd |-> cmds[cmdIdx], rc |-> o.rc,
                                      stderr |-> o.stderr])
         /\ Loop(run_cmd(cmds[cmdIdx], o.rc, o.stderr))
    /\ UNCHANGED <<world, analysis, conv, cmds, result, run, prev>>
    /\ UNCHANGED call

\* execute_check_commands: the loop is over, return True, ""
ChecksPassed ==
    /\ pc = "checks"
    /\ cmdIdx > Len(cmds)
    /\ checks' = [success |-> TRUE, error |-> NoError, ran |-> TRUE]
    /\ visited' = Append(visited, "checks-run")
    /\ pc' = "outcome"
    /\ UNCHANGED <<world, analysis, conv, cmds, cmdIdx, result, events, run, prev>>
    /\ UNCHANGED call

\* handle_migration_failure returning the success code
MutFailureAsSuccess == SUCCESS

\* the exit codes of the two handlers
handle_migration_failure == FAILURE
handle_migration_success == SUCCESS

\* run_migration_and_checks: handle_migration_success or handle_migration_failure
HandleCheckResult ==
    /\ pc = "outcome"
    /\ IF run_migration_and_checks(checks.success) = "commit"
       THEN /\ pc' = "git_add"
            /\ visited' = Append(visited, "committed")
            /\ UNCHANGED result
       ELSE /\ Finish(Exit(handle_migration_failure))
            /\ visited' = Append(visited, "failed")
    /\ UNCHANGED <<world, analysis, conv, cmds, cmdIdx, checks, events, run, prev>>
    /\ UNCHANGED call

\* commit_changes: run_cmd(["git", "add", ...]); its result is not read
GitAdd ==
    /\ pc = "git_add"
    /\ \E o \in Outcomes :
         events' = Append(events, [op |-> "run", cmd |-> GitAddCmd, rc |-> o.rc,
                                   stderr |-> o.stderr])
    /\ pc' = "git_commit"
    /\ UNCHANGED <<world, analysis, conv, cmds, cmdIdx, checks, result, visited, run, prev>>
    /\ UNCHANGED call

\* commit_changes: run_cmd(["git", "commit", "-m", ...]); its result is not read
GitCommit ==
    /\ pc = "git_commit"
    /\ \E o \in Outcomes :
         events' = Append(events, [op |-> "run",
                                   cmd |-> GitCommitCmd(build_commit_notes(analysis.val)),
                                   rc |-> o.rc, stderr |-> o.stderr])
    /\ pc' = "update_manifest"
    /\ UNCHANGED <<world, analysis, conv, cmds, cmdIdx, checks, result, visited, run, prev>>
    /\ UNCHANGED call

\* commit_changes after update_manifest ended as u
Update(u) ==
    IF ~u.ok
    THEN Finish(Propagated(u.exc)) /\ UNCHANGED <<store, events>>
    ELSE /\ store' = u.val.store
         /\ events' = IF u.val.saved
                      THEN Append(events, [op |-> "save_manifest", store |-> u.val.store])
                      ELSE events
         /\ Finish(Exit(handle_migration_success))

\* commit_changes: update_manifest(repo, "migrated", note); then
\* handle_migration_success returns SUCCESS
UpdateManifest ==
    /\ pc = "update_manifest"
    /\ Update(update_manifest(store, repo, "migrated", build_commit_notes(analysis.val)))
    /\ UNCHANGED <<repo, repoExists, manifest, pinFile, lockFile, venvDir, pyFiles,
                   analysis, conv, cmds, cmdIdx, checks, visited, run, prev>>
    /\ UNCHANGED call

\* the operator invokes migrate_repo again on the same repository
RunAgain ==
    /\ pc = "done"
    /\ run < MaxRuns
    /\ run' = run + 1
    /\ prev' = [ended |-> result, wrote |-> conv.wrote, at |-> Snapshot]
    /\ pc' = "start"
    /\ analysis' = None
    /\ conv' = NotCalled
    /\ cmds' = <<>>
    /\ cmdIdx' = 1
    /\ checks' = NoChecks
    /\ result' = Pending
    /\ events' = <<>>
    /\ visited' = <<"start">>
    /\ UNCHANGED world
    /\ UNCHANGED call

Next ==
    \/ CheckRepoExists
    \/ PerformAnalysis
    \/ HandleAnalysis
    \/ ConvertPyproject
    \/ CreatePythonVersionFile
    \/ CleanOldFiles
    \/ BuildCheckCommands
    \/ RunCheckCommand
    \/ ChecksPassed
    \/ HandleCheckResult
    \/ GitAdd
    \/ GitCommit
    \/ UpdateManifest
    \/ RunAgain

Spec == Init /\ [][Next]_vars

(***************************************************************************)
(* What a run did, read off its side effects.                              *)
(***************************************************************************)
\* the executions of the sync/check commands, and of git
IsUv(e) == e.op = "run" /\ e.cmd.argv[1] = UV_PATH
IsGit(e) == e.op = "run" /\ e.cmd.argv[1] = "git"
IsOp(e, op) == e.op = op

UvEvents == SelectSeq(events, IsUv)
GitEvents == SelectSeq(events, IsGit)

SomeEvent(P(_)) == \E i \in 1..Len(events) : P(events[i])
Failing(e) == IsUv(e) /\ e.rc # 0

\* the run reached the commit step or changed the tracking store
CommitHappened ==
    \/ SomeEvent(IsGit)
    \/ SomeEvent(LAMBDA e : IsOp(e, "save_manifest"))
    \/ store # prev.at.store
    \/ "committed" \in Range(visited)

\* every command of the sequence was executed, in order, and exited zero
AllCommandsPassed ==
    /\ Len(UvEvents) = Len(cmds)
    /\ \A k \in 1..Len(UvEvents) : UvEvents[k].cmd = cmds[k] /\ UvEvents[k].rc = 0

\* nothing on disk differs from the start of the run, and nothing was done
NothingDone == events = <<>> /\ Snapshot = prev.at

\* the manifest at the start of the run
StartManifest == prev.at.manifest

\* a document in the target format and not in the legacy format
TargetNotLegacy(doc) ==
    /\ doc.project.some
    /\ doc.depgroups.some
    /\ ~(doc.tool.some /\ doc.tool.val.poetry.some)

(***************************************************************************)
(* C1.                                                                     *)
(***************************************************************************)
\* C1: the committed state is reached only if every command of the
\* sync/check sequence exited zero: git add, git commit and the update of
\* the tracking store never happen in a run in which a sync/check command
\* failed or was not run.
C1_CommitOnlyIfAllPassed ==
    CommitHappened => AllCommandsPassed /\ ~SomeEvent(Failing)

\* a run that committed and saved the store after all five commands passed
C1_Witness ==
    /\ pc = "done"
    /\ result = Exit(SUCCESS)
    /\ Len(cmds) = 5
    /\ Len(GitEvents) = 2
    /\ SomeEvent(LAMBDA e : IsOp(e, "save_manifest"))

(***************************************************************************)
(* C2.                                                                     *)
(***************************************************************************)
\* the last sync/check command executed exited non-zero
LastFailed == UvEvents # <<>> /\ Last(UvEvents).rc # 0

\* C2: the first command that exits non-zero ends the sequence: the
\* commands executed are a prefix of the list, each once, only the last of
\* them can have failed, and run_checks returns (False, error of exactly
\* that command) after a failure and (True, "") after the whole list passed.
C2_FirstFailureEndsSequence ==
    /\ Len(UvEvents) <= Len(cmds)
    /\ \A k \in 1..Len(UvEvents) : UvEvents[k].cmd = cmds[k]
    /\ \A i, j \in 1..Len(UvEvents) : i # j => UvEvents[i].cmd # UvEvents[j].cmd
    /\ \A k \in 1..(Len(UvEvents) - 1) : UvEvents[k].rc = 0
    /\ LastFailed => checks.ran
    /\ checks.ran =>
         IF LastFailed
         THEN /\ ~checks.success
              /\ checks.error = ErrorRunning(Last(UvEvents).cmd, Last(UvEvents).stderr)
         ELSE /\ checks.success
              /\ checks.error = NoError
              /\ Len(UvEvents) = Len(cmds)

\* the linter failed: the type checker and the tests were not run
C2_Witness ==
    /\ pc = "done"
    /\ Len(cmds) = 5
    /\ Len(UvEvents) = 3
    /\ LastFailed
    /\ checks.ran /\ ~checks.success

(***************************************************************************)
(* C3.                                                                     *)
(***************************************************************************)
\* the directories of a relative path: its components but the last
DirsOf(path) == SubSeq(Split(path, <<"/">>), 1, Len(Split(path, <<"/">>)) - 1)

\* a file in .venv or before/
InExcludedDir(f) ==
    \E i \in 1..Len(DirsOf(f.path)) : DirsOf(f.path)[i] \in {VenvDirName, BeforeDirName}

\* the Python files outside the excluded directories
SourceFiles == MapSeq(LAMBDA f : f.path, SelectSeq(pyFiles, LAMBDA f : ~InExcludedDir(f)))

ExpectedCommands ==
    << [argv |-> <<UV_PATH, "sync", "--refresh">>, args |-> <<>>],
       [argv |-> <<UV_PATH, "sync", "--group", "dev">>, args |-> <<>>] >>
    \o (IF SourceFiles = <<>> THEN <<>>
        ELSE << [argv |-> <<UV_PATH, "run", "ruff", "check", ".">>, args |-> <<>>],
                [argv |-> <<UV_PATH, "run", "mypy">>, args |-> SourceFiles],
                [argv |-> <<UV_PATH, "run", "pytest">>, args |-> <<>>] >>)

\* C3: the commands run one at a time in the fixed order: the two syncs,
\* then, only if a Python file exists outside .venv and before/, ruff, mypy
\* on exactly those files, pytest; with no such file only the two syncs.
C3_FixedCommandOrder ==
    UvEvents # <<>> =>
        /\ Len(UvEvents) <= Len(ExpectedCommands)
        /\ \A k \in 1..Len(UvEvents) : UvEvents[k].cmd = ExpectedCommands[k]
        /\ (checks.ran /\ checks.success) => Len(UvEvents) = Len(ExpectedCommands)

(***************************************************************************)
(* C4.                                                                     *)
(***************************************************************************)
\* C4: a run that starts on a manifest in the target format and without the
\* legacy block returns SUCCESS and has changed and executed nothing.
C4_AlreadyMigratedShortCircuits ==
    (pc = "done" /\ StartManifest.kind = "doc" /\ TargetNotLegacy(StartManifest.doc))
        => result = Exit(SUCCESS) /\ NothingDone

(***************************************************************************)
(* C5.                                                                     *)
(***************************************************************************)
\* C5: when the manifest lacks the legacy block, convert_pyproject returns
\* False without raising and without writing, and the run ends at once with
\* FAILURE: no pin file, no removal, no command, no commit, no store update.
C5_NoLegacyBlockFails ==
    (conv.called /\ ~has_poetry_config(StartManifest.doc))
        => /\ conv.ok /\ ~conv.returned /\ ~conv.wrote
           /\ pc = "done"
           /\ result = Exit(FAILURE)
           /\ NothingDone

\* convert_pyproject was called on a manifest with no legacy block
C5_Witness ==
    /\ conv.called
    /\ ~has_poetry_config(StartManifest.doc)
    /\ pc = "done"
    /\ result = Exit(FAILURE)

(***************************************************************************)
(* C6.                                                                     *)
(***************************************************************************)
\* C6: when a sync/check command fails after conversion the run returns
\* FAILURE and nothing is rolled back: the manifest on disk is the rewritten
\* one, the pin file is the one written, poetry.lock and .venv are absent,
\* and nothing was committed.
C6_NoRollbackOnFailure ==
    (pc = "done" /\ SomeEvent(Failing))
        => /\ result = Exit(FAILURE)
           /\ SomeEvent(LAMBDA e : /\ IsOp(e, "write_toml")
                                   /\ manifest = [kind |-> "doc", doc |-> e.doc])
           /\ TargetNotLegacy(manifest.doc)
           /\ manifest # StartManifest
           /\ SomeEvent(LAMBDA e : IsOp(e, "write_pin") /\ pinFile = Some(e.text))
           /\ ~lockFile
           /\ ~venvDir
           /\ ~CommitHappened

\* a command failed in a repository that had poetry.lock and .venv
C6_Witness ==
    /\ pc = "done"
    /\ SomeEvent(Failing)
    /\ prev.at.lockFile
    /\ prev.at.venvDir
    /\ Len(SelectSeq(events, LAMBDA e : IsOp(e, "remove"))) = 2

(***************************************************************************)
(* C7.                                                                     *)
(***************************************************************************)
DriverStates ==
    <<"start", "converted", "artifacts-cleaned", "dependencies-synced", "checks-run">>

\* the place of a driver state in the order; committed and failed share the last
Rank(s) ==
    IF s \in {"committed", "failed"} THEN Len(DriverStates) + 1
    ELSE CHOOSE i \in 1..Len(DriverStates) : DriverStates[i] = s

\* only forward, no state twice, none before its predecessor
DriverStatesForward ==
    /\ visited[1] = "start"
    /\ \A i, j \in 1..Len(visited) : i < j => Rank(visited[i]) < Rank(visited[j])
    /\ \A i \in 2..Len(visited) :
         IF visited[i] = "failed"
         THEN "artifacts-cleaned" \in Range(SubSeq(visited, 1, i - 1))
         ELSE Rank(visited[i - 1]) = Rank(visited[i]) - 1
    \* poetry.lock and .venv are never removed before the manifest is rewritten
    /\ \A i \in 1..Len(events) :
         IsOp(events[i], "remove") => \E j \in 1..(i - 1) : IsOp(events[j], "write_toml")
    \* no sync/check command runs before the artifacts are cleaned
    /\ UvEvents # <<>> => "artifacts-cleaned" \in Range(visited)
    /\ \A i, j \in 1..Len(events) :
         (IsUv(events[i]) /\ IsOp(events[j], "remove")) => j < i
    \* no git command runs before the last check command
    /\ GitEvents # <<>> => Len(UvEvents) = Len(cmds) /\ "checks-run" \in Range(visited)
    /\ \A i, j \in 1..Len(events) : (IsGit(events[i]) /\ IsUv(events[j])) => j < i

EndsCommittedOrFailed == Last(visited) \in {"committed", "failed"}

\* the run stopped with the failure code or with an error
StoppedWithFailure == result = Exit(FAILURE) \/ result.kind = "raised"

\* the run returned SUCCESS from the start state, on an already migrated manifest
ShortCircuited ==
    /\ result = Exit(SUCCESS)
    /\ visited = <<"start">>
    /\ StartManifest.kind = "doc"
    /\ TargetNotLegacy(StartManifest.doc)
    /\ NothingDone

\* C7 as stated: the driver states are entered only forward, none twice,
\* none before its predecessor, and the run ends in exactly one of committed
\* or failed unless it stopped earlier with a failure.
C7_AsStated ==
    /\ DriverStatesForward
    /\ pc = "done" => EndsCommittedOrFailed \/ StoppedWithFailure

\* C7, amended: the driver states are entered only forward, none twice, none
\* before its predecessor, and the run ends in exactly one of committed or
\* failed unless it stopped earlier with a failure or returned SUCCESS from
\* the start state because the manifest was already migrated.
C7_ForwardOnly ==
    /\ DriverStatesForward
    /\ pc = "done" => EndsCommittedOrFailed \/ StoppedWithFailure \/ ShortCircuited

\* a run through every state to committed
C7_Witness ==
    /\ pc = "done"
    /\ visited = DriverStates \o <<"committed">>
    /\ Len(GitEvents) = 2

(***************************************************************************)
(* C8.                                                                     *)
(***************************************************************************)
\* C8: every manifest convert_pyproject writes has a project table, a
\* non-empty dev group and no legacy block, so is_already_migrated holds on
\* it; a second run on the result changes nothing and returns SUCCESS.
C8_IdempotentOnSuccess ==
    /\ \A i \in 1..Len(events) :
         IsOp(events[i], "write_toml")
            => /\ events[i].doc.project.some
               /\ events[i].doc.depgroups.some
               /\ events[i].doc.depgroups.val # <<>>
               /\ ~has_poetry_config(events[i].doc)
               /\ is_already_migrated(events[i].doc)
    /\ (run > 1 /\ prev.wrote /\ pc = "done") => result = Exit(SUCCESS) /\ NothingDone

\* the second run, on a manifest the first run rewrote, has ended
C8_Witness ==
    /\ run = 2
    /\ prev.wrote
    /\ pc = "done"
    /\ result = Exit(SUCCESS)

(***************************************************************************)
(* C9.                                                                     *)
(***************************************************************************)
\* C9: every run ends by returning the success code or the failure code,
\* never with an error propagating out of migrate_repo.
C9_AlwaysAnExitCode ==
    pc = "done" => result.kind = "exit" /\ result.code \in {SUCCESS, FAILURE}

(***************************************************************************)
(* C10.                                                                    *)
(***************************************************************************)
\* the target path does not exist, or the manifest is missing or unparsable
InputError == ~repoExists \/ StartManifest.kind \in {"missing", "unparsable"}

\* C10: on an input error before conversion the run returns FAILURE and has
\* performed no mutation and no command.
C10_InputErrorNoMutation ==
    (pc = "done" /\ InputError)
        => /\ result = Exit(FAILURE)
           /\ ~conv.called
           /\ visited = <<"start">>
           /\ NothingDone

\* a run on a manifest that does not parse has ended
C10_Witness ==
    /\ pc = "done"
    /\ repoExists
    /\ StartManifest.kind = "unparsable"
    /\ result = Exit(FAILURE)

(***************************************************************************)
(* The functions called on their own, as the tests call them: no run of    *)
(* migrate_repo is in progress, one function is applied to arguments drawn *)
(* from the sets below and its result is recorded in call.                 *)
(***************************************************************************)
\* no run of migrate_repo: the driver's variables stay as they are
NoRun ==
    UNCHANGED <<world, pc, analysis, conv, cmds, cmdIdx, checks, result, events,
                visited, run, prev>>

FnInit ==
    /\ repo = <<"/", "w", "/", "r">>
    /\ repoExists = TRUE
    /\ manifest = [kind |-> "missing"]
    /\ pinFile = None
    /\ lockFile = FALSE
    /\ venvDir = FALSE
    /\ pyFiles = <<>>
    /\ store = [kind |-> "missing"]
    /\ pc = "none"
    /\ analysis = None
    /\ conv = NotCalled
    /\ cmds = <<>>
    /\ cmdIdx = 1
    /\ checks = NoChecks
    /\ result = Pending
    /\ events = <<>>
    /\ visited = <<>>
    /\ run = 1
    /\ prev = [ended |-> Pending, wrote |-> FALSE, at |-> Snapshot]
    /\ call = NoCall

\* the module_conflicts of the trees of the model
ConflictLists == {check_module_conflicts(<<"/", "w", "/", "r">>, t) : t \in Trees}

\* missing_stubs as find_required_type_stubs returns them: sorted names of
\* imported packages that are neither built in nor in TYPED_PACKAGES
StubLists == {<<>>, <<<<"r", "e", "q", "u", "e", "s", "t", "s">>>>, <<<<"r", "e", "q", "u", "e", "s", "t", "s">>, <<"y", "a", "m", "l">>>>}

\* the analysis records handed to the transformer
Analyses ==
    [duplicate_deps : {{}},
     invalid_versions : {<<>>},
     module_conflicts : ConflictLists,
     missing_stubs : StubLists,
     has_async : BOOLEAN,
     has_type_annotations : BOOLEAN,
     has_long_lines : BOOLEAN,
     python_versions : {<<<<">", "=", "3", ".", "1", "2">>, <<"<", "4", ".", "0">>>>}]

(***************************************************************************)
(* C11.                                                                    *)
(***************************************************************************)
SaveEvents == SelectSeq(events, LAMBDA e : IsOp(e, "save_manifest"))

\* the tracking store holds a record for the repository
HasRecord ==
    /\ store.kind = "ok"
    /\ RelativeToWork(repo).ok
    /\ find_repo_in_manifest(store, RelativeToWork(repo).val) # 0

RepoRecord == store.repos[find_repo_in_manifest(store, RelativeToWork(repo).val)]

\* the summary of this run
Summary == build_commit_notes(analysis.val)

\* C11: in the committed step the driver first stages exactly pyproject.toml,
\* .python-version and uv.lock with git add, then creates one git commit
\* whose message is the title, a blank line and the summary, and then updates
\* the tracking store with status "migrated" and notes equal to that summary.
C11_CommitStepInOrder ==
    /\ Len(GitEvents) <= 2
    /\ Len(SaveEvents) <= 1
    /\ (pc = "git_add") => GitEvents = <<>> /\ SaveEvents = <<>>
    /\ (pc = "git_commit") => Len(GitEvents) = 1 /\ SaveEvents = <<>>
    /\ (pc = "update_manifest") => Len(GitEvents) = 2 /\ SaveEvents = <<>>
    /\ GitEvents # <<>>
          => GitEvents[1].cmd = [argv |-> <<"git", "add">>,
                                 args |-> <<<<"p", "y", "p", "r", "o", "j", "e", "c", "t", ".", "t", "o", "m", "l">>, <<".", "p", "y", "t", "h", "o", "n", "-", "v", "e", "r", "s", "i", "o", "n">>, <<"u", "v", ".", "l", "o", "c", "k">>>>]
    /\ Len(GitEvents) = 2
          => GitEvents[2].cmd =
                [argv |-> <<"git", "commit", "-m">>,
                 args |-> <<<<"c", "h", "o", "r", "e", ":", " ", "m", "i", "g", "r", "a", "t", "e", " ", "f", "r", "o", "m", " ", "p", "o", "e", "t", "r", "y", " ", "t", "o", " ", "u", "v", "\n", "\n">> \o Summary>>]
    /\ SaveEvents # <<>>
          => /\ Len(GitEvents) = 2
             /\ events[Len(events)] = SaveEvents[1]
             /\ SaveEvents[1].store = store
             /\ HasRecord
             /\ RepoRecord.status = "migrated"
             /\ RepoRecord.notes = Summary
    /\ (pc = "done" /\ "committed" \in Range(visited))
          => /\ Len(GitEvents) = 2
             /\ (result = Exit(SUCCESS) /\ HasRecord) => SaveEvents # <<>>

\* the commit step ran to its end on a repository the store has a record of
C11_Witness ==
    /\ pc = "done"
    /\ result = Exit(SUCCESS)
    /\ Len(GitEvents) = 2
    /\ SaveEvents # <<>>
    /\ RepoRecord.status = "migrated"

(***************************************************************************)
(* C12.                                                                    *)
(***************************************************************************)
\* note = build_commit_notes(analysis)
CallBuildCommitNotes ==
    /\ call = NoCall
    /\ \E a \in Analyses :
         call' = [fn |-> "build_commit_notes", analysis |-> a, ret |-> build_commit_notes(a)]
    /\ NoRun

\* the notes the claim lists, in its order, for the decisions that apply
C12_Notes(a) ==
    (IF a.module_conflicts # <<>> THEN <<<<"e", "x", "c", "l", "u", "d", "e", "d", " ", "b", "e", "f", "o", "r", "e", "/", " ", "d", "i", "r", "e", "c", "t", "o", "r", "y">>>> ELSE <<>>)
    \o (IF a.missing_stubs # <<>>
        THEN <<<<"a", "d", "d", "e", "d", " ", "t", "y", "p", "e", " ", "s", "t", "u", "b", "s", ":", " ">> \o Join(a.missing_stubs, <<",", " ">>)>> ELSE <<>>)
    \o (IF a.has_async THEN <<<<"c", "o", "n", "f", "i", "g", "u", "r", "e", "d", " ", "a", "s", "y", "n", "c", " ", "m", "y", "p", "y", " ", "c", "h", "e", "c", "k", "s">>>> ELSE <<>>)
    \o (IF a.has_type_annotations THEN <<<<"e", "n", "a", "b", "l", "e", "d", " ", "s", "t", "r", "i", "c", "t", " ", "m", "y", "p", "y", " ", "m", "o", "d", "e">>>> ELSE <<>>)

C12_NoneApplies(a) ==
    /\ a.module_conflicts = <<>>
    /\ a.missing_stubs = <<>>
    /\ ~a.has_async
    /\ ~a.has_type_annotations

\* C12: the commit summary is the "; "-joined list of the notes of the
\* decisions that apply, in the order conflicts, stubs, async, annotations,
\* and it is "converted with standard configuration" exactly when none of
\* the four applies.
C12_SummaryOfDecisions ==
    call.fn = "build_commit_notes"
        => /\ C12_NoneApplies(call.analysis)
                 => call.ret = <<"c", "o", "n", "v", "e", "r", "t", "e", "d", " ", "w", "i", "t", "h", " ", "s", "t", "a", "n", "d", "a", "r", "d", " ", "c", "o", "n", "f", "i", "g", "u", "r", "a", "t", "i", "o", "n">>
           /\ ~C12_NoneApplies(call.analysis)
                 => /\ call.ret = Join(C12_Notes(call.analysis), <<";", " ">>)
                    /\ call.ret # <<"c", "o", "n", "v", "e", "r", "t", "e", "d", " ", "w", "i", "t", "h", " ", "s", "t", "a", "n", "d", "a", "r", "d", " ", "c", "o", "n", "f", "i", "g", "u", "r", "a", "t", "i", "o", "n">>

\* the summary of an analysis to which all four decisions apply
C12_Witness ==
    /\ call.fn = "build_commit_notes"
    /\ call.analysis.module_conflicts # <<>>
    /\ call.analysis.missing_stubs = <<<<"r", "e", "q", "u", "e", "s", "t", "s">>, <<"y", "a", "m", "l">>>>
    /\ call.analysis.has_async
    /\ call.analysis.has_type_annotations
    /\ call.ret = <<"e", "x", "c", "l", "u", "d", "e", "d", " ", "b", "e", "f", "o", "r", "e", "/", " ", "d", "i", "r", "e", "c", "t", "o", "r", "y", ";", " ", "a", "d", "d", "e", "d", " ", "t", "y", "p", "e", " ", "s", "t", "u", "b", "s", ":", " ", "r", "e", "q", "u", "e", "s", "t", "s", ",", " ", "y", "a", "m", "l", ";", " ", "c", "o", "n", "f", "i", "g", "u", "r", "e", "d", " ", "a", "s", "y", "n", "c", " ", "m", "y", "p", "y", " ", "c", "h", "e", "c", "k", "s", ";", " ", "e", "n", "a", "b", "l", "e", "d", " ", "s", "t", "r", "i", "c", "t", " ", "m", "y", "p", "y", " ", "m", "o", "d", "e">>

(***************************************************************************)
(* C13, C14, C15: version constraints.                                     *)
(***************************************************************************)
\* numerals with a numeric major, and the bound one major version above
Numerals ==
    { [text |-> <<"1">>, upper |-> <<"2", ".", "0">>],
      [text |-> <<"0", ".", "1">>, upper |-> <<"1", ".", "0">>],
      [text |-> <<"1", ".", "2", ".", "3">>, upper |-> <<"2", ".", "0">>],
      [text |-> <<"2", ".", "0">>, upper |-> <<"3", ".", "0">>],
      [text |-> <<"3", ".", "0">>, upper |-> <<"4", ".", "0">>],
      [text |-> <<"2", ".", "3", "1", ".", "0">>, upper |-> <<"3", ".", "0">>],
      [text |-> <<"3", ".", "1", "2">>, upper |-> <<"4", ".", "0">>],
      [text |-> <<"9">>, upper |-> <<"1", "0", ".", "0">>],
      [text |-> <<"1", "9", ".", "9", ".", "0">>, upper |-> <<"2", "0", ".", "0">>] }

RangeOperators == {<<"^">>, <<"~">>, <<">", "=">>}

\* the documented shapes: a caret, a tilde or ">=", a numeral, and nothing,
\* a trailing wildcard or a post-release suffix after it
Ranges ==
    [kind : {"range"}, op : RangeOperators, num : Numerals, suf : {<<>>, <<".", "*">>}]

PostReleases ==
    [kind : {"post"}, op : RangeOperators, num : Numerals, suf : {<<".", "p", "o", "s", "t", "1">>}]

Other(kind, text) ==
    [kind |-> kind, op |-> <<>>, num |-> [text |-> text, upper |-> <<>>], suf |-> <<>>]

\* constraints whose leading numeral is not a number
Invalids == {Other("invalid", t) : t \in {<<">", "=", "b", "a", "d">>, <<"^", "x", ".", "1">>, <<"~", "b", "a", "d", ".", "2">>, <<">", "=">>, <<"^", ".", "5">>}}

\* constraints without a range operator, and the empty constraint
Plains == {Other("plain", t) : t \in {<<"1", ".", "2">>, <<"=", "=", "1", ".", "2", ".", "0">>, <<"*">>, <<>>}}

Constraints == Ranges \cup PostReleases \cup Invalids \cup Plains

TextOf(c) == c.op \o c.num.text \o c.suf

\* validate_version_constraint(version)
CallValidateVersionConstraint ==
    /\ call = NoCall
    /\ \E c \in Constraints :
         call' = [fn |-> "validate_version_constraint", arg |-> c, version |-> TextOf(c),
                  again |-> FALSE, ret |-> validate_version_constraint(TextOf(c))]
    /\ NoRun

\* validate_version_constraint applied to its own result
Revalidate ==
    /\ call.fn = "validate_version_constraint"
    /\ ~call.again
    /\ call.ret.some
    /\ call' = [call EXCEPT !.version = call.ret.val, !.again = TRUE,
                            !.ret = validate_version_constraint(call.ret.val)]
    /\ NoRun

\* normalize_version(constraint), a ValueError turned into None for comparison
CallNormalizeVersion ==
    /\ call = NoCall
    /\ \E c \in Constraints :
         call' = [fn |-> "normalize_version", arg |-> c, version |-> TextOf(c),
                  again |-> FALSE, ret |-> OrNone(normalize_version(TextOf(c)))]
    /\ NoRun

FirstNormalization ==
    /\ call.fn \in {"validate_version_constraint", "normalize_version"}
    /\ ~call.again

\* C13: for a caret, tilde or ">=" constraint with a numeric major M,
\* optionally ending in ".*", validate_version_constraint and
\* normalize_version return a string that starts with ">=" and the version
\* without caret, tilde and wildcard and ends with ", <(M+1).0"; "^1.2.3"
\* has lower bound 1.2.3 (with the enforced component) and upper bound <2.0,
\* "~2.0" gives ">=2.0, <3.0", ">=3.0.*" gives ">=3.0, <4.0" and "^2.31.0"
\* gives ">=2.31.0, <3.0".
C13_LowerAndUpperBound ==
    (FirstNormalization /\ call.arg.kind = "range")
        => /\ call.ret.some
           /\ StartsWith(call.ret.val, <<">", "=">> \o call.arg.num.text)
           /\ EndsWith(call.ret.val, <<",", " ", "<">> \o call.arg.num.upper)
           /\ Len(Split(call.ret.val, <<",", " ", "<">>)) = 2
           /\ (call.version = <<"^", "1", ".", "2", ".", "3">>) => call.ret.val = <<">", "=", "1", ".", "2", ".", "3", ".", "0", ",", " ", "<", "2", ".", "0">>
           /\ (call.version = <<"~", "2", ".", "0">>) => call.ret.val = <<">", "=", "2", ".", "0", ",", " ", "<", "3", ".", "0">>
           /\ (call.version = <<">", "=", "3", ".", "0", ".", "*">>) => call.ret.val = <<">", "=", "3", ".", "0", ",", " ", "<", "4", ".", "0">>
           /\ (call.version = <<"^", "2", ".", "3", "1", ".", "0">>) => call.ret.val = <<">", "=", "2", ".", "3", "1", ".", "0", ",", " ", "<", "3", ".", "0">>

\* the wildcard constraint of the claim has been normalized
C13_Witness ==
    /\ call.fn = "normalize_version"
    /\ call.version = <<">", "=", "3", ".", "0", ".", "*">>
    /\ call.ret = Some(<<">", "=", "3", ".", "0", ",", " ", "<", "4", ".", "0">>)

\* C14: validate_version_constraint applied to its own output returns that
\* output: re-normalizing a string that starts with ">=" reproduces the same
\* single upper bound and changes nothing else.
C14_Idempotent ==
    (call.fn = "validate_version_constraint" /\ call.again)
        => call.ret = Some(call.version)

\* the names and constraints of the dependency strings of the model
DepNames == {<<"r", "e", "q", "u", "e", "s", "t", "s">>, <<"b", "a", "d">>}

DepConstraints ==
    {c \in Constraints : TextOf(c) \in {<<>>, <<"^", "2", ".", "3", "1", ".", "0">>, <<"=", "=", "1", ".", "2", ".", "0">>, <<">", "=", "b", "a", "d">>, <<"^", "x", ".", "1">>}}

Declarations == [name : DepNames, c : DepConstraints]

\* "name constraint", or the name alone when there is no constraint
DepString(d) == IF TextOf(d.c) = <<>> THEN d.name ELSE d.name \o <<" ">> \o TextOf(d.c)

RECURSIVE DeclarationsOfLen(_)
DeclarationsOfLen(n) ==
    IF n = 0 THEN {<<>>}
    ELSE {Append(ds, d) : ds \in DeclarationsOfLen(n - 1), d \in Declarations}

\* a manifest with these project dependencies and this dev group
DocDeclaring(ds, dev) ==
    [tool |-> None,
     project |-> Some([requires_python |-> None, dependencies |-> MapSeq(DepString, ds)]),
     depgroups |-> Some(MapSeq(DepString, dev))]

\* invalid_versions = validate_version_constraints(doc)
CallValidateVersionConstraints ==
    /\ call = NoCall
    /\ \E ds \in UNION {DeclarationsOfLen(n) : n \in 0..MaxDeps}, dev \in DeclarationsOfLen(1) :
         call' = [fn |-> "validate_version_constraints", project |-> ds, dev |-> dev,
                  ret |-> validate_version_constraints(DocDeclaring(ds, dev))]
    /\ NoRun

\* the declarations with an invalid constraint, as (name, raw constraint)
C15_Expected(ds) ==
    MapSeq(LAMBDA d : <<d.name, TextOf(d.c)>>,
           SelectSeq(ds, LAMBDA d : d.c.kind = "invalid"))

\* C15: for a constraint whose leading numeral is not a number,
\* validate_version_constraint returns None instead of raising, and the
\* analyzer records in invalid_versions the pair (name, raw constraint) of
\* every dependency string with such a constraint and of no other: a
\* dependency with an empty or a valid constraint is not recorded.
C15_InvalidRecordedNotRaised ==
    /\ (call.fn = "validate_version_constraint" /\ ~call.again /\ call.arg.kind = "invalid")
          => call.ret = None
    /\ (call.fn = "validate_version_constraints")
          => call.ret = C15_Expected(call.project \o call.dev)

\* a valid and an invalid declaration were analyzed; the invalid one is recorded
C15_Witness ==
    /\ call.fn = "validate_version_constraints"
    /\ Len(call.project) = 2
    /\ call.project[1].c.kind = "range"
    /\ call.dev[1].c.kind = "plain"
    /\ call.ret = << <<<<"b", "a", "d">>, <<">", "=", "b", "a", "d">>>> >>

(***************************************************************************)
(* C16: module-name conflicts.                                             *)
(***************************************************************************)
\* conflicts = check_module_conflicts(repo_path)
CallCheckModuleConflicts ==
    /\ call = NoCall
    /\ \E t \in Trees :
         call' = [fn |-> "check_module_conflicts", files |-> t,
                  ret |-> check_module_conflicts(repo, t)]
    /\ NoRun

\* the scanned files: those outside the virtual environment, in glob order
C16_Scanned == SelectSeq(call.files, LAMBDA f : ~InDir(f, VenvDirName))

\* the scanned files with an earlier scanned file of the same base name
C16_Later ==
    {k \in 1..Len(C16_Scanned) :
        \E j \in 1..(k - 1) : Stem(C16_Scanned[j].path) = Stem(C16_Scanned[k].path)}

C16_EntryOf(k) == <<Stem(C16_Scanned[k].path), AbsPath(repo, C16_Scanned[k])>>

\* C16: the first file with a base name establishes the canonical mapping
\* and every later file with that base name produces exactly one conflict
\* entry naming the later file's path: two files with the same base name
\* give exactly one entry, naming the second-encountered file, and files with
\* a unique base name give none.
C16_LaterFileIsTheConflict ==
    call.fn = "check_module_conflicts"
        => /\ Len(call.ret) = Cardinality(C16_Later)
           /\ \A k \in C16_Later : \E i \in 1..Len(call.ret) : call.ret[i] = C16_EntryOf(k)
           /\ \A i \in 1..Len(call.ret) : \E k \in C16_Later : call.ret[i] = C16_EntryOf(k)

(***************************************************************************)
(* C17, C18: git and path dependencies.                                    *)
(***************************************************************************)
GitUrl == <<"h", "t", "t", "p", "s", ":", "/", "/", "g", "i", "t", "h", "u", "b", ".", "c", "o", "m", "/", "u", "s", "e", "r", "/", "r", "e", "p", "o", ".", "g", "i", "t">>

\* the optional keys of a dependency table
Optional(key, values) == {EmptyTable} \cup {key :> v : v \in values}

\* { git = "...", rev/tag/branch = "...", extras = [...] }
GitConstraints ==
    {[git |-> GitUrl] @@ r @@ t @@ b @@ e :
        r \in Optional("rev", {<<"m", "a", "i", "n">>}), t \in Optional("tag", {<<"v", "1">>}),
        b \in Optional("branch", {<<"d", "e", "v">>}), e \in Optional("extras", {<<<<"t", "e", "s", "t">>>>})}

\* { path = "...", develop = true/false }
PathConstraints ==
    {[path |-> p] @@ d :
        p \in {<<".", ".", "/", "m", "y", "p", "a", "c", "k", "a", "g", "e">>, <<"/", "a", "b", "s", "/", "p", "a", "t", "h", "/", "t", "o", "/", "p", "k", "g">>, <<"p", "k", "g">>},
        d \in Optional("develop", BOOLEAN)}

WheelUrl == <<"h", "t", "t", "p", "s", ":", "/", "/", "e", "x", "a", "m", "p", "l", "e", ".", "o", "r", "g", "/", "p", "k", "g", ".", "w", "h", "l">>

\* { url = "..." }, and tables with more than one of path, git and url
UrlConstraints ==
    {[url |-> WheelUrl] @@ e : e \in Optional("extras", {<<<<"t", "e", "s", "t">>>>})}
    \cup {[path |-> <<"p", "k", "g">>, git |-> GitUrl], [git |-> GitUrl, url |-> WheelUrl],
          [path |-> <<"p", "k", "g">>, url |-> WheelUrl],
          [path |-> <<"p", "k", "g">>, git |-> GitUrl, url |-> WheelUrl, version |-> <<"^", "1", ".", "2">>]}

\* { version = "...", extras = [...], develop = ..., optional = ... }, and
\* tables without a version
VersionConstraints ==
    {[version |-> v] @@ e @@ d @@ o :
        v \in {<<"^", "1", ".", "2">>, <<"^", "x", ".", "1">>}, e \in Optional("extras", {<<<<"a">>, <<"b">>>>}),
        d \in Optional("develop", BOOLEAN), o \in Optional("optional", {TRUE})}
    \cup {[extras |-> <<<<"a">>>>], [optional |-> TRUE]}

\* a version string, the empty string for "no constraint"
StringConstraints == {<<>>, <<"^", "2", ".", "3", "1", ".", "0">>, <<"~", "2", ".", "0">>, <<"^", "x", ".", "1">>}

DepConstraintValues ==
    {DictC(d) : d \in GitConstraints \cup PathConstraints \cup UrlConstraints
                      \cup VersionConstraints}
    \cup {StrC(v) : v \in StringConstraints}

PackageNames == {<<"m", "y", "p", "a", "c", "k", "a", "g", "e">>, <<"l", "o", "c", "a", "l", "p", "a", "c", "k", "a", "g", "e">>}

\* declaration = format_dependency(dep, constraint)
CallFormatDependency ==
    /\ call = NoCall
    /\ \E dep \in PackageNames, c \in DepConstraintValues :
         call' = [fn |-> "format_dependency", dep |-> dep, constraint |-> c,
                  ret |-> format_dependency(dep, c),
                  out |-> format_dependency_output(dep, c)]
    /\ NoRun

CalledWithTable == call.fn = "format_dependency" /\ call.constraint.kind = "dict"

\* C17: for a git dependency that gives a revision and extras,
\* format_dependency returns "name[extras] @ git+url@revision": the extras
\* are kept.
C17_GitKeepsExtras ==
    (/\ CalledWithTable
     /\ HasKey(call.constraint.d, "git")
     /\ HasKey(call.constraint.d, "rev")
     /\ HasKey(call.constraint.d, "extras"))
        => call.ret = Returned(call.dep \o <<"[">> \o Join(call.constraint.d["extras"], <<",">>)
                               \o <<"]", " ", "@", " ", "g", "i", "t", "+">> \o call.constraint.d["git"] \o <<"@">>
                               \o call.constraint.d["rev"])

\* the absolute paths of the path dependencies of the model
C18_Absolute(p) ==
    CASE p = <<".", ".", "/", "m", "y", "p", "a", "c", "k", "a", "g", "e">> -> <<"/", "m", "y", "p", "a", "c", "k", "a", "g", "e">>
      [] p = <<"/", "a", "b", "s", "/", "p", "a", "t", "h", "/", "t", "o", "/", "p", "k", "g">> -> <<"/", "a", "b", "s", "/", "p", "a", "t", "h", "/", "t", "o", "/", "p", "k", "g">>
      [] p = <<"p", "k", "g">> -> <<"/", "w", "/", "p", "k", "g">>

\* C18: formatting a path dependency that sets the develop flag produces
\* exactly two advisory messages, the editable-conversion warning and then
\* the absolute-path warning, and returns "name @ file://<absolute path>".
C18_TwoAdvisories ==
    (/\ CalledWithTable
     /\ HasKey(call.constraint.d, "path")
     /\ HasKey(call.constraint.d, "develop")
     /\ call.constraint.d["develop"])
        => /\ call.ret = Returned(call.dep \o <<" ", "@", " ", "f", "i", "l", "e", ":", "/", "/">>
                                  \o C18_Absolute(call.constraint.d["path"]))
           /\ call.out =
                <<<<"W", "a", "r", "n", "i", "n", "g", ":", " ">> \o call.dep
                    \o <<" ", "h", "a", "s", " ", "d", "e", "v", "e", "l", "o", "p", "=", "t", "r", "u", "e", " ", "(", "e", "d", "i", "t", "a", "b", "l", "e", ")", ",", " ", "c", "o", "n", "v", "e", "r", "t", "i", "n", "g", " ", "t", "o", " ", "r", "e", "g", "u", "l", "a", "r", " ", "i", "n", "s", "t", "a", "l", "l">>,
                  <<"W", "a", "r", "n", "i", "n", "g", ":", " ">> \o call.dep
                    \o <<" ", "p", "a", "t", "h", " ", "d", "e", "p", "e", "n", "d", "e", "n", "c", "y", " ", "u", "s", "e", "s", " ", "a", "b", "s", "o", "l", "u", "t", "e", " ", "p", "a", "t", "h", ",", " ", "n", "o", "t", " ", "p", "o", "r", "t", "a", "b", "l", "e", " ", "a", "c", "r", "o", "s", "s", " ", "m", "a", "c", "h", "i", "n", "e", "s">>>>

(***************************************************************************)
(* C19: the dev group.                                                     *)
(***************************************************************************)
TypesRequestsItem == Item(<<"t", "y", "p", "e", "s", "-", "r", "e", "q", "u", "e", "s", "t", "s">>, <<"^", "2", ".", "0">>)

DevItems == {PytestItem, RuffItem, MypyItem, DeptryItem, TypesRequestsItem, ReqItem, BadItem}

RECURSIVE DevItemsOfLen(_)
DevItemsOfLen(n) ==
    IF n = 0 THEN {<<>>}
    ELSE {Append(g, item) : g \in DevItemsOfLen(n - 1), item \in DevItems}

\* the groups of the legacy block: none, one group of up to MaxDeps
\* declarations, or two groups that declare the four tools
DevGroups ==
    {<<>>, << <<PytestItem, RuffItem>>, <<MypyItem, DeptryItem>> >>}
    \cup {<<g>> : g \in UNION {DevItemsOfLen(n) : n \in 1..MaxDeps}}

\* dev = build_dev_dependencies(poetry_config, analysis)
CallBuildDevDependencies ==
    /\ call = NoCall
    /\ \E groups \in DevGroups, a \in Analyses :
         /\ a.module_conflicts = <<>>
         /\ ~a.has_async /\ ~a.has_type_annotations /\ ~a.has_long_lines
         /\ call' = [fn |-> "build_dev_dependencies", group |-> groups, analysis |-> a,
                     ret |-> build_dev_dependencies(
                                [dependencies |-> <<PythonItem>>, group |-> groups], a)]
    /\ NoRun

Count(x, xs) == Cardinality({i \in 1..Len(xs) : xs[i] = x})

Named(name, xs) == {i \in 1..Len(xs) : extract_dep_name(xs[i]) = name}

\* the legacy declarations of the call, reformatted one by one
C19_Legacy == MapSeq(LAMBDA item : format_dependency(item[1], item[2]).val,
                     Flatten(call.group))

C19_LegacyNames == {extract_dep_name(C19_Legacy[i]) : i \in 1..Len(C19_Legacy)}

\* the stub and tool names that the legacy groups do not declare
C19_NewStubs ==
    {<<"t", "y", "p", "e", "s", "-">> \o call.analysis.missing_stubs[i] :
        i \in 1..Len(call.analysis.missing_stubs)} \ C19_LegacyNames

C19_NewTools == {<<"p", "y", "t", "e", "s", "t">>, <<"r", "u", "f", "f">>, <<"m", "y", "p", "y">>, <<"d", "e", "p", "t", "r", "y">>} \ C19_LegacyNames

\* C19: the dev list holds every legacy dev declaration reformatted by
\* format_dependency, one types-<pkg> declaration for each missing stub whose
\* name is not already present and each of pytest, ruff, mypy and deptry whose
\* name is not already present, and nothing else; it is sorted by the full
\* declaration string and is never empty.
C19_DevListAssembled ==
    (call.fn = "build_dev_dependencies" /\ call.ret.ok)
        => /\ \A i \in 1..Len(C19_Legacy) :
                 Count(C19_Legacy[i], C19_Legacy) <= Count(C19_Legacy[i], call.ret.val)
           /\ \A name \in C19_NewStubs \cup C19_NewTools :
                 Cardinality(Named(name, call.ret.val)) = 1
           /\ \A name \in C19_NewStubs :
                 \A i \in Named(name, call.ret.val) : call.ret.val[i] = name \o <<" ", ">", "=", "2", ".", "0", ".", "0", ",", " ", "<", "3", ".", "0">>
           /\ Len(call.ret.val)
                 = Len(C19_Legacy) + Cardinality(C19_NewStubs) + Cardinality(C19_NewTools)
           /\ \A i \in 1..(Len(call.ret.val) - 1) :
                 ~StrLess(call.ret.val[i + 1], call.ret.val[i])
           /\ call.ret.val # <<>>

\* the legacy group declares pytest and types-requests; the stubs of requests and
\* yaml are missing
C19_Witness ==
    /\ call.fn = "build_dev_dependencies"
    /\ call.group = << <<PytestItem, TypesRequestsItem>> >>
    /\ call.analysis.missing_stubs = <<<<"r", "e", "q", "u", "e", "s", "t", "s">>, <<"y", "a", "m", "l">>>>
    /\ call.ret = Returned(<<<<"d", "e", "p", "t", "r", "y", " ", ">", "=", "0", ".", "1", "4", ".", "2", ",", " ", "<", "0", ".", "1", "5", ".", "0">>, <<"m", "y", "p", "y", " ", ">", "=", "1", ".", "6", ".", "1", ",", " ", "<", "2", ".", "0", ".", "0">>,
                             <<"p", "y", "t", "e", "s", "t", " ", ">", "=", "8", ".", "0", ",", " ", "<", "9", ".", "0">>, <<"r", "u", "f", "f", " ", ">", "=", "0", ".", "1", ".", "3", ",", " ", "<", "0", ".", "2", ".", "0">>,
                             <<"t", "y", "p", "e", "s", "-", "r", "e", "q", "u", "e", "s", "t", "s", " ", ">", "=", "2", ".", "0", ",", " ", "<", "3", ".", "0">>, <<"t", "y", "p", "e", "s", "-", "y", "a", "m", "l", " ", ">", "=", "2", ".", "0", ".", "0", ",", " ", "<", "3", ".", "0">>>>)

(***************************************************************************)
(* C20: tool configuration.                                                *)
(***************************************************************************)
\* config = configure_tools(repo_path, analysis)
CallConfigureTools ==
    /\ call = NoCall
    /\ \E a \in Analyses :
         call' = [fn |-> "configure_tools", analysis |-> a, ret |-> configure_tools(a)]
    /\ NoRun

\* some conflict path contains "before/"
C20_BeforeConflict(a) ==
    \E i \in 1..Len(a.module_conflicts) : Contains(a.module_conflicts[i][2], <<"b", "e", "f", "o", "r", "e", "/">>)

\* the tables the rules contribute, one per rule
C20_MypyRules(a) ==
    << IF a.has_async THEN [k \in {"strict_optional", "warn_unused_awaits"} |-> TRUE]
       ELSE EmptyTable,
       IF a.has_type_annotations THEN [k \in {"strict", "warn_return_any"} |-> TRUE]
       ELSE EmptyTable,
       IF a.module_conflicts # <<>> THEN [k \in {"exclude"} |-> <<<<"b", "e", "f", "o", "r", "e", "/", ".", "*">>>>]
       ELSE EmptyTable >>

C20_RuffRules(a) ==
    << IF a.has_long_lines THEN [k \in {"line-length"} |-> 100] ELSE EmptyTable,
       IF C20_BeforeConflict(a) THEN [k \in {"exclude"} |-> <<<<"b", "e", "f", "o", "r", "e">>>>] ELSE EmptyTable >>

\* no two of the tables have a key in common
C20_Disjoint(rules) ==
    \A i, j \in 1..Len(rules) : i # j => DOMAIN rules[i] \cap DOMAIN rules[j] = {}

\* C20: the mypy table has strict_optional and warn_unused_awaits iff
\* has_async, strict and warn_return_any iff has_type_annotations, exclude iff
\* module_conflicts is non-empty; the ruff table has line-length = 100 iff
\* has_long_lines and exclude = ["before"] iff some conflict path contains
\* "before/"; the rules own disjoint keys, so merging them in any order gives
\* the same tables.
C20_RulesOwnDisjointKeys ==
    call.fn = "configure_tools"
        => /\ \A k \in {"strict_optional", "warn_unused_awaits"} :
                 (k \in DOMAIN call.ret.mypy) <=> call.analysis.has_async
           /\ \A k \in {"strict", "warn_return_any"} :
                 (k \in DOMAIN call.ret.mypy) <=> call.analysis.has_type_annotations
           /\ ("exclude" \in DOMAIN call.ret.mypy) <=> call.analysis.module_conflicts # <<>>
           /\ ("line-length" \in DOMAIN call.ret.ruff) <=> call.analysis.has_long_lines
           /\ ("line-length" \in DOMAIN call.ret.ruff) => call.ret.ruff["line-length"] = 100
           /\ ("exclude" \in DOMAIN call.ret.ruff) <=> C20_BeforeConflict(call.analysis)
           /\ ("exclude" \in DOMAIN call.ret.ruff) => call.ret.ruff["exclude"] = <<<<"b", "e", "f", "o", "r", "e">>>>
           /\ C20_Disjoint(C20_MypyRules(call.analysis))
           /\ C20_Disjoint(C20_RuffRules(call.analysis))
           /\ \A i, j, k \in 1..3 :
                 {i, j, k} = 1..3
                    => call.ret.mypy = Merge(Merge(C20_MypyRules(call.analysis)[i],
                                                   C20_MypyRules(call.analysis)[j]),
                                             C20_MypyRules(call.analysis)[k])
           /\ \A i, j \in 1..2 :
                 i # j => call.ret.ruff = Merge(C20_RuffRules(call.analysis)[i],
                                                C20_RuffRules(call.analysis)[j])

\* every rule applies: async code, annotations, long lines and a conflict in before/
C20_Witness ==
    /\ call.fn = "configure_tools"
    /\ call.analysis.has_async
    /\ call.analysis.has_type_annotations
    /\ call.analysis.has_long_lines
    /\ C20_BeforeConflict(call.analysis)
    /\ DOMAIN call.ret.mypy
         = {"strict_optional", "warn_unused_awaits", "strict", "warn_return_any", "exclude"}
    /\ DOMAIN call.ret.ruff = {"line-length", "exclude"}

(***************************************************************************)
(* C21, C22, C23: the formatting rule of a declaration.                    *)
(***************************************************************************)
\* the version rule: "name[extras] constraint" or "name constraint"
C21_VersionRule(dep, d) ==
    Then(normalize_version(d["version"]),
         LAMBDA v : Returned(IF HasKey(d, "extras") /\ d["extras"] # <<>>
                             THEN dep \o <<"[">> \o Join(d["extras"], <<",">>) \o <<"]", " ">> \o v
                             ELSE dep \o <<" ">> \o v))

\* the rule that the priority order of the claim chooses for a table
C21_TableRule(dep, d) ==
    IF HasKey(d, "path") THEN Returned(format_path_dependency(dep, d))
    ELSE IF HasKey(d, "git") THEN Returned(format_git_dependency(dep, d))
    ELSE IF HasKey(d, "url") THEN Returned(format_url_dependency(dep, d))
    ELSE IF HasKey(d, "version") THEN C21_VersionRule(dep, d)
    ELSE Returned(dep)

\* the rule for a bare version string: the name alone when it is empty
C21_StringRule(dep, v) ==
    IF v = <<>> THEN Returned(dep)
    ELSE Then(normalize_version(v), LAMBDA n : Returned(dep \o <<" ">> \o n))

\* C21: format_dependency applies exactly one rule per declaration, chosen in
\* the order path, git, url, table with a version key, bare version string or
\* unconstrained: a table with path and git gives the file reference, one
\* with git and url the git reference, an empty constraint the bare name.
C21_OneRuleByPriority ==
    call.fn = "format_dependency"
        => /\ call.constraint.kind = "dict"
                 => call.ret = C21_TableRule(call.dep, call.constraint.d)
           /\ call.constraint.kind = "str"
                 => call.ret = C21_StringRule(call.dep, call.constraint.s)
           /\ call.constraint = DictC([path |-> <<"p", "k", "g">>, git |-> GitUrl])
                 => call.ret = Returned(call.dep \o <<" ", "@", " ", "f", "i", "l", "e", ":", "/", "/", "/", "w", "/", "p", "k", "g">>)
           /\ call.constraint = DictC([git |-> GitUrl, url |-> WheelUrl])
                 => call.ret = Returned(call.dep \o <<" ", "@", " ", "g", "i", "t", "+">> \o GitUrl)
           /\ call.constraint = StrC(<<>>) => call.ret = Returned(call.dep)

\* C22: for a table that has a version key and none of path, git and url,
\* whatever other keys it has, format_dependency returns "name[e1,e2]
\* constraint" when extras are present and "name constraint" otherwise, with
\* the normalized version: the constraint is never dropped.
C22_VersionNeverDropped ==
    (/\ CalledWithTable
     /\ HasKey(call.constraint.d, "version")
     /\ \A k \in {"path", "git", "url"} : ~HasKey(call.constraint.d, k)
     /\ normalize_version(call.constraint.d["version"]).ok)
        => call.ret = C21_VersionRule(call.dep, call.constraint.d)

\* the reference the claim prefers: the revision, else the tag, else the branch
C23_Suffix(d) ==
    IF HasKey(d, "rev") THEN <<"@">> \o d["rev"]
    ELSE IF HasKey(d, "tag") THEN <<"@">> \o d["tag"]
    ELSE IF HasKey(d, "branch") THEN <<"@">> \o d["branch"]
    ELSE <<>>

\* C23: for a git dependency the reference ends with "@ref", where ref is the
\* revision if one is given, otherwise the tag, otherwise the branch, and has
\* no "@ref" suffix when none of them is given.
C23_RevThenTagThenBranch ==
    (/\ CalledWithTable
     /\ HasKey(call.constraint.d, "git")
     /\ ~HasKey(call.constraint.d, "path"))
        => call.ret = Returned(call.dep \o <<" ", "@", " ", "g", "i", "t", "+">> \o call.constraint.d["git"]
                               \o C23_Suffix(call.constraint.d))

\* a git dependency with a tag and a branch and no revision: the tag is used
C23_Witness ==
    /\ CalledWithTable
    /\ DOMAIN call.constraint.d = {"git", "tag", "branch"}
    /\ call.ret = Returned(call.dep \o <<" ", "@", " ", "g", "i", "t", "+", "h", "t", "t", "p", "s", ":", "/", "/", "g", "i", "t", "h", "u", "b", ".", "c", "o", "m", "/", "u", "s", "e", "r", "/", "r", "e", "p", "o", ".", "g", "i", "t", "@", "v", "1">>)

(***************************************************************************)
(* C24: the numeral of the lower bound.                                    *)
(***************************************************************************)
\* the version after ">=" in a normalized constraint, up to its upper bound
C24_LowerBound(text) ==
    SubSeq(First(Split(text, <<",", " ", "<">>)), 3, Len(First(Split(text, <<",", " ", "<">>))))

C24_Components(numeral) == Len(Split(numeral, <<".">>))

ScanPaths == {<<"m", "a", "i", "n", ".", "p", "y">>, <<"_", "_", "i", "n", "i", "t", "_", "_", ".", "p", "y">>, <<"s", "r", "c", "/", "a", "p", "p", ".", "p", "y">>, <<"p", "k", "g", "/", "_", "_", "i", "n", "i", "t", "_", "_", ".", "p", "y">>, <<".", "v", "e", "n", "v", "/", "x", ".", "p", "y">>}

\* the names a file imports: built in (os), typed (click), external
\* (requests, yaml), the stems app and x, the directory pkg, and r, the name
\* of the repository root
ImportSets ==
    { {}, {<<"o", "s">>, <<"r", "e", "q", "u", "e", "s", "t", "s">>}, {<<"c", "l", "i", "c", "k">>, <<"y", "a", "m", "l">>, <<"r", "e", "q", "u", "e", "s", "t", "s">>}, {<<"a", "p", "p">>, <<"p", "k", "g">>, <<"y", "a", "m", "l">>},
      {<<"x">>, <<"r">>} }

ScanContents ==
    [parses : BOOLEAN, hasAsync : {FALSE}, hasAnnotation : {FALSE}, hasLongLine : {FALSE},
     imports : ImportSets]

ScanFiles == {FileAt(path, c) : path \in ScanPaths, c \in ScanContents}

\* the trees with imports: one or two files with distinct paths, in glob order
ScanTrees ==
    {<<f>> : f \in ScanFiles}
    \cup {t \in {<<f, g>> : f \in ScanFiles, g \in ScanFiles} : t[1].path # t[2].path}

\* missing_stubs = find_required_type_stubs(repo_path)
CallFindRequiredTypeStubs ==
    /\ call = NoCall
    /\ \E t \in ScanTrees :
         call' = [fn |-> "find_required_type_stubs", files |-> t,
                  ret |-> find_required_type_stubs(repo, t)]
    /\ NoRun

\* the names imported by the scanned files that parse
C25_Imported ==
    UNION {IF C16_Scanned[i].parses THEN C16_Scanned[i].imports ELSE {} :
             i \in 1..Len(C16_Scanned)}

\* the base names of the scanned files
C25_LocalModules == {Stem(C16_Scanned[i].path) : i \in 1..Len(C16_Scanned)}

\* the name of the directory that holds the file f
C25_DirectoryOf(f) ==
    IF Len(Split(f.path, <<"/">>)) > 1 THEN ParentName(f.path) ELSE BaseName(repo)

\* the directories of the scanned tree that hold a package-marker file
C25_LocalPackages ==
    {C25_DirectoryOf(C16_Scanned[i]) :
        i \in {k \in 1..Len(C16_Scanned) : BaseName(C16_Scanned[k].path) = InitPy}}

\* C25: the result of find_required_type_stubs is sorted alphabetically and
\* free of duplicates, holds no name of the built-in allow-list, none of the
\* already-typed allow-list, no base name of a scanned file and no directory
\* holding a package-marker file, and holds every other name imported by a
\* scanned file that parses.
C25_SortedExternalImports ==
    call.fn = "find_required_type_stubs"
        => /\ \A i \in 1..(Len(call.ret) - 1) : StrLess(call.ret[i], call.ret[i + 1])
           /\ Range(call.ret) \cap BUILTIN_MODULES = {}
           /\ Range(call.ret) \cap TYPED_PACKAGES = {}
           /\ Range(call.ret) \cap C25_LocalModules = {}
           /\ Range(call.ret) \cap C25_LocalPackages = {}
           /\ (((C25_Imported \ BUILTIN_MODULES) \ TYPED_PACKAGES) \ C25_LocalModules)
                \ C25_LocalPackages \subseteq Range(call.ret)
           /\ Range(call.ret) \subseteq C25_Imported

(***************************************************************************)
(* C26, C27: annotation detection and best-effort scanning.                *)
(***************************************************************************)
\* files that parse or do not, with and without async code, annotations and
\* an import
AstContents ==
    [parses : BOOLEAN, hasAsync : BOOLEAN, hasAnnotation : BOOLEAN, hasLongLine : {FALSE},
     imports : {{}, {<<"r", "e", "q", "u", "e", "s", "t", "s">>}}]

AstFiles == {FileAt(path, c) : path \in {<<"m", "a", "i", "n", ".", "p", "y">>, <<"s", "r", "c", "/", "a", "p", "p", ".", "p", "y">>, <<".", "v", "e", "n", "v", "/", "x", ".", "p", "y">>}, c \in AstContents}

\* one or two files with distinct paths, in glob order
AstTrees ==
    {<<f>> : f \in AstFiles}
    \cup {t \in {<<f, g>> : f \in AstFiles, g \in AstFiles} : t[1].path # t[2].path}

\* has_type_annotations(repo_path)
CallHasTypeAnnotations ==
    /\ call = NoCall
    /\ \E t \in AstTrees :
         call' = [fn |-> "has_type_annotations", files |-> t,
                  ret |-> has_type_annotations(repo, t)]
    /\ NoRun

\* analyze_repo(repo_path) on a repository with a readable legacy manifest
CallAnalyzeRepo ==
    /\ call = NoCall
    /\ \E t \in AstTrees :
         call' = [fn |-> "analyze_repo", files |-> t,
                  ret |-> analyze_repo([kind |-> "doc",
                                        doc |-> [tool |-> ToolWith(Some(GoodPoetry)),
                                                 project |-> None, depgroups |-> None]],
                                       repo, t)]
    /\ NoRun

\* the scanned files that parse
C26_Parsed == SelectSeq(C16_Scanned, LAMBDA f : f.parses)

\* C26: has_type_annotations completes for every scanned tree and returns
\* true if and only if some scanned file that parses holds a variable or
\* return annotation; analyze_repo yields an analysis record for a
\* repository that holds files that parse.
C26_AnnotationDetection ==
    /\ call.fn = "has_type_annotations"
        => /\ call.ret.ok
           /\ call.ret.val <=> \E i \in 1..Len(C26_Parsed) : C26_Parsed[i].hasAnnotation
    /\ (call.fn = "analyze_repo" /\ C26_Parsed # <<>>) => call.ret.ok

\* C27: a file that cannot be read or parsed never makes the analyzer fail:
\* an analysis record is produced whose imports, async flag and annotation
\* flag are those of the remaining scanned files.
C27_BestEffortScanning ==
    (call.fn = "analyze_repo" /\ \E i \in 1..Len(C16_Scanned) : ~C16_Scanned[i].parses)
        => /\ call.ret.ok
           /\ Range(call.ret.val.missing_stubs)
                = UNION {C26_Parsed[i].imports : i \in 1..Len(C26_Parsed)}
           /\ call.ret.val.has_async <=> \E i \in 1..Len(C26_Parsed) : C26_Parsed[i].hasAsync
           /\ call.ret.val.has_type_annotations
                <=> \E i \in 1..Len(C26_Parsed) : C26_Parsed[i].hasAnnotation

(***************************************************************************)
(* C28: the update of the tracking store.                                  *)
(***************************************************************************)
\* records of the store: two paths, two statuses, with and without a field
\* the program does not know
StoreRecords ==
    {[path |-> p, status |-> s, last_updated |-> "earlier", notes |-> <<"o", "l", "d">>] :
        p \in {<<"q">>, <<"r">>}, s \in {"pending", "migrated"}}
    \cup {[path |-> p, status |-> "pending", last_updated |-> "earlier", notes |-> <<>>,
           owner |-> <<"j", "o", "n">>] : p \in {<<"q">>, <<"r">>}}

\* stores of at most two records; two records may have the same path
RecordStores ==
    {[kind |-> "ok", repos |-> rs] :
        rs \in {<<>>} \cup {<<a>> : a \in StoreRecords}
                 \cup {<<a, b>> : a \in StoreRecords, b \in StoreRecords}}

\* update_manifest(repo_path, status, notes)
CallUpdateManifest ==
    /\ call = NoCall
    /\ \E st \in RecordStores, p \in {<<"/", "w", "/", "r">>, <<"/", "w", "/", "q">>, <<"/", "w", "/", "z">>, <<"/", "o", "/", "r">>},
          status \in {"migrated", "failed"}, notes \in {<<>>, <<"a", "s", "y", "n", "c">>} :
         call' = [fn |-> "update_manifest", store |-> st, repo |-> p,
                  status |-> status, notes |-> notes,
                  ret |-> update_manifest(st, p, status, notes)]
    /\ NoRun

\* the record's path is the repository path relative to the workspace root
C28_Matches(entry) == WorkRoot \o <<"/">> \o entry.path = call.repo

C28_Before == call.store.repos
C28_After == call.ret.val.store.repos

\* C28: update_manifest changes only a record whose path is the repository
\* path relative to the workspace root, and of that record only status,
\* last_updated and notes; every other record and every other field is as
\* before, and without a matching record the store is not rewritten.
C28_OnlyTheMatchingRecord ==
    (call.fn = "update_manifest" /\ call.ret.ok)
        => /\ [call.ret.val.store EXCEPT !.repos = C28_Before] = call.store
           /\ Len(C28_After) = Len(C28_Before)
           /\ \A i \in 1..Len(C28_Before) :
                /\ ~C28_Matches(C28_Before[i]) => C28_After[i] = C28_Before[i]
                /\ DOMAIN C28_After[i] = DOMAIN C28_Before[i]
                /\ \A k \in DOMAIN C28_Before[i] \ {"status", "last_updated", "notes"} :
                     C28_After[i][k] = C28_Before[i][k]
           /\ (\A i \in 1..Len(C28_Before) : ~C28_Matches(C28_Before[i]))
                => /\ ~call.ret.val.saved
                   /\ call.ret.val.store = call.store
           /\ (\E i \in 1..Len(C28_Before) : C28_Matches(C28_Before[i]))
                => /\ call.ret.val.saved
                   /\ \E i \in 1..Len(C28_Before) :
                        /\ C28_Matches(C28_Before[i])
                        /\ C28_After[i].status = call.status
                        /\ C28_After[i].last_updated = Today
                        /\ C28_After[i].notes = call.notes

\* the second record of a store was updated and the first was left alone
C28_Witness ==
    /\ call.fn = "update_manifest"
    /\ call.ret.ok
    /\ call.ret.val.saved
    /\ Len(C28_Before) = 2
    /\ C28_Before[1].path = <<"q">>
    /\ "owner" \in DOMAIN C28_Before[2]
    /\ C28_After[1] = C28_Before[1]
    /\ C28_After[2] # C28_Before[2]
    /\ C28_After[2].owner = <<"j", "o", "n">>

(***************************************************************************)
(* C29, C30: the pin file and the commit.                                  *)
(***************************************************************************)
\* the lower bound of a requires-python value, without its ">="
C29_Lower(requires_python) ==
    Strip(Replace(First(Split(requires_python, <<",">>)), <<">", "=">>, <<>>))

\* major.minor of a version
C29_MajorMinor(version) ==
    First(Split(version, <<".">>)) \o <<".">> \o Split(version, <<".">>)[2]

\* C29: after convert_pyproject has rewritten a legacy manifest and the pin
\* file has been created, .python-version holds major.minor of the lower
\* bound of the requires-python of the rewritten manifest, and a newline.
C29_PinIsRequiresPython ==
    (pc = "clean" /\ conv.wrote)
        => pinFile = Some(C29_MajorMinor(C29_Lower(
                              manifest.doc.project.val.requires_python.val)) \o <<"\n">>)


\* a git command of commit_changes exited with a code other than 0
C30_GitFailed ==
    \E i \in 1..Len(events) :
        /\ events[i].op = "run"
        /\ events[i].cmd.argv[1] = "git"
        /\ events[i].rc # 0

\* C30: when git add or git commit exits non-zero the tracking store is not
\* saved with the status "migrated" and migrate_repo does not return SUCCESS.
C30_NoSuccessWithoutCommit ==
    C30_GitFailed
        => /\ \A i \in 1..Len(events) : events[i].op # "save_manifest"
           /\ result # Exit(SUCCESS)

(***************************************************************************)
(* The specification of the functions called on their own.                 *)
(***************************************************************************)
FnNext ==
    \/ CallBuildCommitNotes
    \/ CallValidateVersionConstraint
    \/ Revalidate
    \/ CallNormalizeVersion
    \/ CallValidateVersionConstraints
    \/ CallCheckModuleConflicts
    \/ CallFindRequiredTypeStubs
    \/ CallHasTypeAnnotations
    \/ CallAnalyzeRepo
    \/ CallUpdateManifest
    \/ CallFormatDependency
    \/ CallBuildDevDependencies
    \/ CallConfigureTools

FnSpec == FnInit /\ [][FnNext]_vars

====
